---------------------------- MODULE Spec2Model ----------------------------
(***************************************************************************)
(* The runtime gateway of mcplibrarian: the container lifecycle manager    *)
(* (scripts/mcp_container_manager.py) and the protocol gateway             *)
(* (scripts/mcp-proxy.py).                                                 *)
(*                                                                         *)
(* Text is a sequence of symbols.  A symbol is an atomic piece of text (a  *)
(* word or a separator); the string functions of the code (lower, in,      *)
(* endswith, replace) work on these sequences the way Python's work on     *)
(* characters.                                                             *)
(***************************************************************************)
EXTENDS Integers, Sequences, FiniteSets, TLC

VARIABLES
    activity_tracker,    \* ContainerManager.activity_tracker: server name -> timestamp
    running_containers,  \* ContainerManager.running_containers: server name -> container name
    engine,              \* the container engine: names of the containers that run
    now,                 \* the wall clock, datetime.now(), in seconds
    last,                \* the outcome of the last call: what it returned, issued and fired
    pc,                  \* MCPProxy.run: "idle" (not started), "reading", "crashed", "done"
    stdout,              \* the lines the gateway wrote since it read the last inbound line
    files,               \* the registry files on disk
    workers,             \* the threads and processes that write the registry files
    entries              \* the registry document's "servers": name -> entry, as the health
                         \* command reads and writes it

vars == <<activity_tracker, running_containers, engine, now, last, pc, stdout, files, workers, entries>>

----------------------------------------------------------------------------
(* Bounds of the model *)

MaxTime == 2

----------------------------------------------------------------------------
(* Text *)

LowerSym(c) ==
    CASE c = "SEARCH" -> "search"
      [] c = "Deeplake" -> "deeplake"
      [] c = "Note" -> "note"
      [] OTHER -> c

\* str.lower()
Lower(s) == [i \in 1..Len(s) |-> LowerSym(s[i])]

\* str.startswith at offset i (1-based)
MatchAt(hay, needle, i) ==
    /\ i + Len(needle) - 1 <= Len(hay)
    /\ \A k \in 1..Len(needle) : hay[i + k - 1] = needle[k]

\* needle in hay
Contains(hay, needle) == \E i \in 1..(Len(hay) + 1) : MatchAt(hay, needle, i)

\* str.endswith
EndsWith(s, suf) == Len(suf) <= Len(s) /\ MatchAt(s, suf, Len(s) - Len(suf) + 1)

\* str.replace(old, new) for a non-empty old: leftmost, non-overlapping
RECURSIVE Replace(_, _, _)
Replace(s, old, new) ==
    IF s = <<>> THEN <<>>
    ELSE IF MatchAt(s, old, 1)
         THEN new \o Replace(SubSeq(s, Len(old) + 1, Len(s)), old, new)
         ELSE <<Head(s)>> \o Replace(Tail(s), old, new)

----------------------------------------------------------------------------
(* The registry file, as loaded by ContainerManager._load_registry.        *)
(* A config is a dict: a function whose domain is the keys it holds.       *)

DeeplakeRag == <<"deeplake", "-", "rag">>
Notes == <<"notes">>
WebFetch == <<"web", "_", "fetch">>

\* registry["servers"] in iteration order
RegistryKeys == <<DeeplakeRag, Notes, WebFetch>>

Servers == {RegistryKeys[i] : i \in 1..Len(RegistryKeys)}

DeeplakeRagConfig ==
    [container_name |-> <<"mcp", "-", "deeplake">>,
     image |-> <<"deeplake-image">>,
     autoStop |-> TRUE,
     autoStopDelay |-> 1,
     friendly_name |-> <<"deeplake">>,
     triggers |-> << <<"search">> >>,
     manifest_path |-> "deeplake.json"]

NotesConfig ==
    [container_name |-> <<"mcp", "-", "notes">>,
     image |-> <<"notes-image">>,
     autoStop |-> FALSE,
     friendly_name |-> <<"deeplake">>,
     triggers |-> << <<"Note">> >>,
     meta_tool_name |-> <<"notes", "_", "tools">>]

WebFetchConfig ==
    [container_name |-> <<"mcp", "-", "web">>,
     compose_file |-> <<"web/docker-compose.yml">>,
     autoStopDelay |-> 1,
     friendly_name |-> <<"web">>,
     manifest_path |-> "web.json"]

Registry ==
    (DeeplakeRag :> DeeplakeRagConfig) @@ (Notes :> NotesConfig) @@ (WebFetch :> WebFetchConfig)

\* dict.get(key, default)
Get(config, key, default) == IF key \in DOMAIN config THEN config[key] ELSE default

\* The manifest files that exist on disk, with the tool names each lists
Manifests == [p \in {"deeplake.json"} |-> {<<"retrieve", "_", "context">>}]

\* A name that is no key of the registry
Unknown == <<"unknown">>

Names == Servers \cup {Unknown}

ContainerNames == {Registry[s].container_name : s \in Servers}

----------------------------------------------------------------------------
(* The lifecycle manager.  Each method is an operator on a record m:       *)
(*   activity_tracker, running_containers, engine, now: the state;         *)
(*   cmds: the engine commands run so far by the running call, each with   *)
(*         the name it was given and whether it exited with status 0;      *)
(*   notes: how often on_container_change was invoked by the running call; *)
(*   noted_at: for each of these invocations, how many commands had run;   *)
(*   detected: the servers trigger detection chose for the request;        *)
(*   ret: the value the method returns.                                    *)
(* env is what the engine will answer: psOk (docker ps exits 0), startOk   *)
(* and stopOk (the servers whose start / stop command exits 0) and run     *)
(* (the outcome of a docker run).                                          *)

Cmd(cmd, name, ok) == [cmd |-> cmd, name |-> name, ok |-> ok]

\* docker ps --filter name=<container_name> --format {{.Names}}
DockerPs(m, container_name) == {n \in m.engine : Contains(n, container_name)}

\* is_container_running, had it answered from the local running flag
is_container_running_by_flag(m, env, server_name) ==
    [m EXCEPT !.ret = server_name \in DOMAIN m.running_containers]

is_container_running(m, env, server_name) ==
    IF server_name \notin DOMAIN Registry
    THEN [m EXCEPT !.ret = FALSE]
    ELSE LET container_name == Registry[server_name].container_name
         IN IF env.psOk
            THEN [m EXCEPT !.cmds = Append(@, Cmd("ps", container_name, TRUE)),
                           !.ret = \E n \in DockerPs(m, container_name) :
                                       Contains(n, container_name)]
            ELSE [m EXCEPT !.cmds = Append(@, Cmd("ps", container_name, FALSE)), !.ret = FALSE]

\* update_activity, had it left the timestamp alone
update_activity_stale(m, server_name) == m

update_activity(m, server_name) ==
    [m EXCEPT !.activity_tracker =
        [k \in DOMAIN @ \cup {server_name} |-> IF k = server_name THEN m.now ELSE @[k]]]

\* the engine start command of a server: docker compose up, or docker start
StartCmd(server_name, ok) ==
    IF "compose_file" \in DOMAIN Registry[server_name]
    THEN Cmd("compose up", Registry[server_name].compose_file, ok)
    ELSE Cmd("start", Registry[server_name].container_name, ok)

\* the engine stop command of a server: docker compose down, or docker stop
StopCmd(server_name, ok) ==
    IF "compose_file" \in DOMAIN Registry[server_name]
    THEN Cmd("compose down", Registry[server_name].compose_file, ok)
    ELSE Cmd("stop", Registry[server_name].container_name, ok)

\* StartChecked, had it notified the proxy for a server that ran already
StartChecked_renotify(r, env, server_name) ==
    IF r.ret
    THEN [update_activity(r, server_name) EXCEPT !.notes = @ + 1, !.ret = TRUE]
    ELSE [r EXCEPT !.cmds = Append(@, StartCmd(server_name, FALSE)), !.ret = FALSE]

\* StartChecked, had it run the start command a second time after a failure
StartChecked_retry(r, env, server_name) ==
    IF r.ret
    THEN [update_activity(r, server_name) EXCEPT !.ret = TRUE]
    ELSE [r EXCEPT !.cmds = @ \o <<StartCmd(server_name, FALSE), StartCmd(server_name, FALSE)>>,
                   !.ret = FALSE]

\* start_container from "Check if already running" on; r: is_container_running's outcome
StartChecked(r, env, server_name) ==
    IF r.ret
    THEN [update_activity(r, server_name) EXCEPT !.ret = TRUE]
    ELSE IF server_name \in env.startOk
         THEN [r EXCEPT
                 !.cmds = Append(@, StartCmd(server_name, TRUE)),
                 !.engine = @ \cup {Registry[server_name].container_name},
                 !.activity_tracker =
                     [k \in DOMAIN @ \cup {server_name} |->
                         IF k = server_name THEN r.now ELSE @[k]],
                 !.running_containers =
                     [k \in DOMAIN @ \cup {server_name} |->
                         IF k = server_name THEN Registry[server_name].container_name ELSE @[k]],
                 !.notes = @ + 1,
                 !.noted_at = Append(@, Len(r.cmds) + 1),
                 !.ret = TRUE]
         ELSE [r EXCEPT !.cmds = Append(@, StartCmd(server_name, FALSE)), !.ret = FALSE]

start_container(m, env, server_name) ==
    IF server_name \notin DOMAIN Registry
    THEN [m EXCEPT !.ret = FALSE]
    ELSE StartChecked(is_container_running(m, env, server_name), env, server_name)

\* stop_container, had it cleared its records whatever the engine answered
stop_container_forgetful(m, env, server_name) ==
    IF server_name \notin DOMAIN Registry
    THEN [m EXCEPT !.ret = FALSE]
    ELSE [m EXCEPT
            !.cmds = Append(@, StopCmd(server_name, server_name \in env.stopOk)),
            !.engine = IF server_name \in env.stopOk
                       THEN @ \ {Registry[server_name].container_name} ELSE @,
            !.activity_tracker = [k \in DOMAIN @ \ {server_name} |-> @[k]],
            !.running_containers = [k \in DOMAIN @ \ {server_name} |-> @[k]],
            !.ret = server_name \in env.stopOk]

stop_container(m, env, server_name) ==
    IF server_name \notin DOMAIN Registry
    THEN [m EXCEPT !.ret = FALSE]
    ELSE IF server_name \in env.stopOk
         THEN [m EXCEPT
                 !.cmds = Append(@, StopCmd(server_name, TRUE)),
                 !.engine = @ \ {Registry[server_name].container_name},
                 !.activity_tracker = [k \in DOMAIN @ \ {server_name} |-> @[k]],
                 !.running_containers = [k \in DOMAIN @ \ {server_name} |-> @[k]],
                 !.ret = TRUE]
         ELSE [m EXCEPT !.cmds = Append(@, StopCmd(server_name, FALSE)), !.ret = FALSE]

\* Inactive, had it compared with >= instead of >
Inactive_nonstrict(m, server_name) ==
    /\ server_name \in DOMAIN m.activity_tracker
    /\ m.now - m.activity_tracker[server_name] >= Get(Registry[server_name], "autoStopDelay", 300)

\* the inactivity test of cleanup_inactive on one server
Inactive(m, server_name) ==
    /\ server_name \in DOMAIN m.activity_tracker
    /\ m.now - m.activity_tracker[server_name] > Get(Registry[server_name], "autoStopDelay", 300)

\* cleanup_inactive's test of one running-checked server; r: is_container_running's
\* outcome, servers_to_stop: the list so far; ret: the list after
CleanupTest(r, server_name, servers_to_stop) ==
    [r EXCEPT !.ret = IF r.ret /\ Inactive(r, server_name)
                      THEN Append(servers_to_stop, server_name)
                      ELSE servers_to_stop]

\* the first loop of cleanup_inactive over registry entries i..n; ret: servers_to_stop
RECURSIVE CleanupScan(_, _, _)
CleanupScan(m, env, i) ==
    IF i > Len(RegistryKeys) THEN m
    ELSE IF ~Get(Registry[RegistryKeys[i]], "autoStop", TRUE)
         THEN CleanupScan(m, env, i + 1)
         ELSE CleanupScan(
                  CleanupTest(is_container_running(m, env, RegistryKeys[i]), RegistryKeys[i], m.ret),
                  env, i + 1)

\* the second loop of cleanup_inactive: stop servers_to_stop[i..]
RECURSIVE CleanupStop(_, _, _, _)
CleanupStop(m, env, servers_to_stop, i) ==
    IF i > Len(servers_to_stop) THEN m
    ELSE CleanupStop(stop_container(m, env, servers_to_stop[i]), env, servers_to_stop, i + 1)

\* CleanupNotify, had it notified the proxy once for every server to stop
CleanupNotify_per_server(stopped, servers_to_stop) ==
    [stopped EXCEPT
        !.notes = @ + Len(servers_to_stop),
        !.noted_at = @ \o [i \in 1..Len(servers_to_stop) |-> Len(stopped.cmds)],
        !.ret = servers_to_stop]

\* cleanup_inactive from "Notify proxy if any containers were stopped" on;
\* stopped: the outcome of the loop of stops
CleanupNotify(stopped, servers_to_stop) ==
    [stopped EXCEPT
        !.notes = IF servers_to_stop # <<>> THEN @ + 1 ELSE @,
        !.noted_at = IF servers_to_stop # <<>> THEN Append(@, Len(stopped.cmds)) ELSE @,
        !.ret = servers_to_stop]

\* cleanup_inactive from "Stop inactive containers" on
CleanupFinish(scanned, env) ==
    CleanupNotify(CleanupStop(scanned, env, scanned.ret, 1), scanned.ret)

\* ret: servers_to_stop
cleanup_inactive(m, env) == CleanupFinish(CleanupScan([m EXCEPT !.ret = <<>>], env, 1), env)

\* get_status's entry for one server; r: is_container_running's outcome
StatusEntry(r, server_name, status) ==
    [r EXCEPT !.ret = IF r.ret
                      THEN [status EXCEPT !.running = Append(@, server_name)]
                      ELSE [status EXCEPT !.stopped = Append(@, server_name)]]

\* get_status over registry entries i..n; ret: [running, stopped]
RECURSIVE StatusScan(_, _, _)
StatusScan(m, env, i) ==
    IF i > Len(RegistryKeys) THEN m
    ELSE StatusScan(
             StatusEntry(is_container_running(m, env, RegistryKeys[i]), RegistryKeys[i], m.ret),
             env, i + 1)

get_status(m, env) ==
    StatusScan([m EXCEPT !.ret = [running |-> <<>>, stopped |-> <<>>]], env, 1)

----------------------------------------------------------------------------
(* Trigger detection: ContainerManager.should_start_container *)

\* \w of the regular expression: letters, digits and the underscore
IsWordSym(c) == c \notin {".", " ", "-"}

\* the map, had a later entry taken a friendly name over from an earlier one
RECURSIVE BuildFriendlyNameMap_overwrite(_, _)
BuildFriendlyNameMap_overwrite(map, i) ==
    IF i > Len(RegistryKeys) THEN map
    ELSE LET server_name == RegistryKeys[i]
             friendly_name == Get(Registry[server_name], "friendly_name", <<>>)
         IN IF friendly_name # <<>>
            THEN BuildFriendlyNameMap_overwrite(
                     [x \in DOMAIN map \cup {friendly_name} |->
                         IF x = friendly_name THEN server_name ELSE map[x]], i + 1)
            ELSE BuildFriendlyNameMap_overwrite(map, i + 1)

RECURSIVE BuildFriendlyNameMap(_, _)
BuildFriendlyNameMap(map, i) ==
    IF i > Len(RegistryKeys) THEN map
    ELSE LET server_name == RegistryKeys[i]
             friendly_name == Get(Registry[server_name], "friendly_name", <<>>)
         IN IF friendly_name # <<>> /\ friendly_name \notin DOMAIN map
            THEN BuildFriendlyNameMap(map @@ (friendly_name :> server_name), i + 1)
            ELSE BuildFriendlyNameMap(map, i + 1)

friendly_name_map == BuildFriendlyNameMap(<<>>, 1)

\* the first position after the run of word symbols that starts at i
RECURSIVE WordEnd(_, _)
WordEnd(message, i) ==
    IF i <= Len(message) /\ IsWordSym(message[i]) THEN WordEnd(message, i + 1) ELSE i

\* re.findall(r'\.(\w+)', message), scanning from position i
RECURSIVE FindAllDot(_, _)
FindAllDot(message, i) ==
    IF i > Len(message) THEN <<>>
    ELSE IF message[i] = "." /\ i < Len(message) /\ IsWordSym(message[i + 1])
         THEN <<SubSeq(message, i + 1, WordEnd(message, i + 1) - 1)>>
                  \o FindAllDot(message, WordEnd(message, i + 1))
         ELSE FindAllDot(message, i + 1)

InSeq(x, seq) == \E i \in 1..Len(seq) : seq[i] = x

\* the matches kept as found, repetitions included
Dedup_keep(seq, seen) == seq

\* deduplicate while preserving order
RECURSIVE Dedup(_, _)
Dedup(seq, seen) ==
    IF seq = <<>> THEN <<>>
    ELSE IF Head(seq) \in seen
         THEN Dedup(Tail(seq), seen)
         ELSE <<Head(seq)>> \o Dedup(Tail(seq), seen \cup {Head(seq)})

_parse_dot_notation(message) == Dedup(FindAllDot(message, 1), {})

RECURSIVE _map_friendly_names(_)
_map_friendly_names(friendly_names) ==
    IF friendly_names = <<>> THEN <<>>
    ELSE IF Head(friendly_names) \in DOMAIN friendly_name_map
         THEN <<friendly_name_map[Head(friendly_names)]>> \o _map_friendly_names(Tail(friendly_names))
         ELSE _map_friendly_names(Tail(friendly_names))

\* any trigger of the config is, as written, a part of message_lower
TriggerMatches_case_sensitive(config, message_lower) ==
    \E k \in 1..Len(Get(config, "triggers", <<>>)) :
        Contains(message_lower, Get(config, "triggers", <<>>)[k])

\* any trigger of the config is, lower-cased, a part of message_lower
TriggerMatches(config, message_lower) ==
    \E k \in 1..Len(Get(config, "triggers", <<>>)) :
        Contains(message_lower, Lower(Get(config, "triggers", <<>>)[k]))

\* the keyword test putting a matched server in front of the list
KeywordTest_prepend(r, server_name, message_lower, containers_to_start) ==
    [r EXCEPT !.ret = IF ~r.ret /\ TriggerMatches(Registry[server_name], message_lower)
                      THEN <<server_name>> \o containers_to_start
                      ELSE containers_to_start]

\* the keyword test, had it not skipped a server that runs
KeywordTest_running(r, server_name, message_lower, containers_to_start) ==
    [r EXCEPT !.ret = IF TriggerMatches(Registry[server_name], message_lower)
                      THEN Append(containers_to_start, server_name)
                      ELSE containers_to_start]

\* the keyword test of one running-checked server; r: is_container_running's
\* outcome; ret: containers_to_start after the test
KeywordTest(r, server_name, message_lower, containers_to_start) ==
    [r EXCEPT !.ret = IF ~r.ret /\ TriggerMatches(Registry[server_name], message_lower)
                      THEN Append(containers_to_start, server_name)
                      ELSE containers_to_start]

\* the keyword loop over registry entries i..n; ret: containers_to_start
RECURSIVE KeywordScan(_, _, _, _)
KeywordScan(m, env, message_lower, i) ==
    IF i > Len(RegistryKeys) THEN m
    ELSE IF InSeq(RegistryKeys[i], m.ret)
         THEN KeywordScan(m, env, message_lower, i + 1)
         ELSE KeywordScan(
                  KeywordTest(is_container_running(m, env, RegistryKeys[i]), RegistryKeys[i],
                              message_lower, m.ret),
                  env, message_lower, i + 1)

\* ret: the servers to start
should_start_container(m, env, message) ==
    KeywordScan([m EXCEPT !.ret = _map_friendly_names(_parse_dot_notation(message))],
                env, Lower(message), 1)

----------------------------------------------------------------------------
(* The gateway: MCPProxy *)

\* An inbound line.  kind: "blank" (white space only), "text" (no JSON),
\* "json" (JSON that is no object) or "object" (a JSON object, whose fields follow).
BlankLine ==
    [kind |-> "blank", id |-> "none", method |-> "", params_ok |-> TRUE, name |-> <<>>,
     server_name |-> <<>>, query |-> <<>>, action |-> "", text |-> <<>>]

\* json.dumps(request), as far as trigger detection reads it
Dumps(request) ==
    <<"jsonrpc", " ", "2", ".", "0", " ", request.method, " ">> \o request.name \o <<" ">>
        \o request.server_name \o <<" ">> \o request.query \o <<" ">> \o request.text

\* a reply of process_request, and a line of the output.  kind: "none" (None),
\* "raise" (an exception leaves process_request), "result", "error", "other"
\* (a relayed line that is neither), "passthrough", "notification"
NoReply ==
    [kind |-> "none", id |-> "none", code |-> 0, what |-> "", about |-> <<>>,
     from |-> "none", tool |-> "None", tools |-> <<>>]

Result(request, from) ==
    [NoReply EXCEPT !.kind = "result", !.id = request.id, !.from = from]

\* error code -32603 with a message of kind what, which names about
Error(request, what, about) ==
    [NoReply EXCEPT !.kind = "error", !.id = request.id, !.code = -32603,
                    !.what = what, !.about = about, !.from = "local"]

Raise(what) == [NoReply EXCEPT !.kind = "raise", !.what = what]

Notification == [NoReply EXCEPT !.kind = "notification"]

\* a line of the container's output returned as the response: response is the
\* kind of that line ("init": the answer to initialize, "result" / "error": the
\* answer to the real request, "note": a notification of the container,
\* "json": JSON that is no JSON-RPC message, such as a log record)
Relayed(request, response) ==
    [NoReply EXCEPT
        !.kind = CASE response \in {"init", "result"} -> "result"
                   [] response = "error" -> "error"
                   [] OTHER -> "other",
        !.id = CASE response = "init" -> "init"
                 [] response \in {"note", "json"} -> "none"
                 [] OTHER -> request.id,
        !.from = response]

\* tool_to_server, built from the manifests by _build_tool_mapping
RECURSIVE BuildToolMapping(_, _)
BuildToolMapping(map, i) ==
    IF i > Len(RegistryKeys) THEN map
    ELSE LET server_name == RegistryKeys[i]
             manifest_path == Get(Registry[server_name], "manifest_path", "")
         IN IF manifest_path \notin DOMAIN Manifests
            THEN BuildToolMapping(map, i + 1)
            ELSE BuildToolMapping(
                     [t \in DOMAIN map \cup Manifests[manifest_path] |->
                         IF t \in Manifests[manifest_path] THEN server_name ELSE map[t]],
                     i + 1)

tool_to_server == BuildToolMapping(<<>>, 1)

\* ret: the response line ("none": None)
_forward_to_container(m, env, server_name) ==
    IF server_name \notin DOMAIN Registry
    THEN [m EXCEPT !.ret = "none"]
    ELSE IF "image" \notin DOMAIN Registry[server_name]
    THEN [m EXCEPT !.ret = "none"]
    ELSE IF env.run.timeout
    THEN [m EXCEPT !.cmds = Append(@, Cmd("run", Registry[server_name].image, FALSE)),
                   !.ret = "none"]
    ELSE IF env.run.rc = 0 /\ env.run.out # <<>>
    THEN [update_activity(m, server_name) EXCEPT
            !.cmds = Append(@, Cmd("run", Registry[server_name].image, TRUE)),
            !.ret = LET response_lines == env.run.out
                        line == IF Len(response_lines) >= 2
                                THEN response_lines[2]
                                ELSE response_lines[1]
                    IN IF line = "junk" THEN "none" ELSE line]
    ELSE [m EXCEPT !.cmds = Append(@, Cmd("run", Registry[server_name].image, env.run.rc = 0)),
                   !.ret = "none"]

\* the answer to tools/list of a gateway whose registry has the keys servers
ToolsListed(request, servers) ==
    [Result(request, "local") EXCEPT
        !.tools = [i \in 1..Len(servers) |->
                      Replace(servers[i], <<"-">>, <<"_">>) \o <<"_", "query">>]
                  \o << <<"get_server_documentation">> >>]

\* _handle_tools_list, had it left out the documentation tool
_handle_tools_list_bare(request) ==
    [Result(request, "local") EXCEPT
        !.tools = [i \in 1..Len(RegistryKeys) |->
                      Replace(RegistryKeys[i], <<"-">>, <<"_">>) \o <<"_", "query">>]]

_handle_tools_list(request) == ToolsListed(request, RegistryKeys)

\* the keyword router of _route_polymorphic_call; "None" when no tool is chosen
RoutedTool(server_name, query) ==
    LET has(w) == Contains(Lower(query), <<w>>)
    IN IF server_name = DeeplakeRag
       THEN CASE has("search") \/ has("find") \/ has("retrieve") -> "retrieve_context"
              [] has("recent") -> "search_recent"
              [] has("summary") -> "get_summary"
              [] has("document") /\ has("get") -> "get_document"
              [] has("fuzzy") \/ has("title") -> "get_fuzzy_matching_titles"
              [] OTHER -> "retrieve_context"
       ELSE "None"

\* _call_container_tool after the relay; r: _forward_to_container's outcome;
\* ret: the reply, of kind "result" or "raise"
ToolOutcome(r, server_name, tool_name) ==
    [r EXCEPT !.ret =
        CASE r.ret = "none" ->
                [Raise("Failed to get response from") EXCEPT !.about = server_name]
          [] r.ret \in {"init", "result"} ->
                [NoReply EXCEPT !.kind = "result", !.from = r.ret, !.tool = tool_name]
          [] r.ret = "error" -> Raise("Tool call failed")
          [] OTHER -> [Raise("Invalid response from") EXCEPT !.about = server_name]]

_call_container_tool(m, env, server_name, tool_name) ==
    ToolOutcome(_forward_to_container(m, env, server_name), server_name, tool_name)

\* _route_polymorphic_call from "Start container if not running" on;
\* r: is_container_running's outcome
RouteChecked(r, env, server_name, tool_name) ==
    _call_container_tool(
        update_activity(IF ~r.ret THEN start_container(r, env, server_name) ELSE r, server_name),
        env, server_name, tool_name)

_route_polymorphic_call(m, env, server_name, query) ==
    RouteChecked(is_container_running(m, env, server_name), env, server_name,
                 RoutedTool(server_name, query))

\* _handle_get_server_documentation, had it answered for any server name
_handle_get_server_documentation_lenient(request, server_name) == Result(request, "local")

\* the reply with "error" set (kind "error"), or the documentation
_handle_get_server_documentation(request, server_name) ==
    IF server_name \notin DOMAIN Registry
    THEN Error(request, "Unknown server", server_name)
    ELSE IF Get(Registry[server_name], "manifest_path", "") \notin DOMAIN Manifests
    THEN Error(request, "No manifest found for", server_name)
    ELSE Result(request, "local")

\* the server whose meta_tool_name is tool_name, from registry entry i on; <<>> if none
RECURSIVE MetaToolServer(_, _)
MetaToolServer(tool_name, i) ==
    IF i > Len(RegistryKeys) THEN <<>>
    ELSE IF Get(Registry[RegistryKeys[i]], "meta_tool_name", <<>>) = tool_name
         THEN RegistryKeys[i]
         ELSE MetaToolServer(tool_name, i + 1)

\* action load_tools after the start; started: start_container's outcome, or
\* is_container_running's when the server ran already
MetaLoaded(started, request, server_name) ==
    IF ~started.ret
    THEN [started EXCEPT !.ret = Error(request, "Failed to start container for", server_name)]
    ELSE IF Get(Registry[server_name], "manifest_path", "") \notin DOMAIN Manifests
    THEN [started EXCEPT !.ret = Error(request, "Manifest not found for", server_name)]
    ELSE [started EXCEPT !.ret = Result(request, "local")]

\* action load_tools; r: is_container_running's outcome
MetaLoad(r, env, request, server_name) ==
    MetaLoaded(IF ~r.ret THEN start_container(r, env, server_name) ELSE r, request, server_name)

\* ret: the reply; kind "none" when the call is no meta-tool call
_handle_meta_tool_call(m, env, request) ==
    IF MetaToolServer(request.name, 1) = <<>>
    THEN [m EXCEPT !.ret = NoReply]
    ELSE IF request.action = "check_status"
    THEN [get_status(m, env) EXCEPT !.ret = Result(request, "local")]
    ELSE IF request.action = "load_tools"
    THEN MetaLoad(is_container_running(m, env, MetaToolServer(request.name, 1)), env, request,
                  MetaToolServer(request.name, 1))
    ELSE [m EXCEPT !.ret = NoReply]

\* start_container for servers[i..], in order
RECURSIVE StartAll(_, _, _, _)
StartAll(m, env, servers, i) ==
    IF i > Len(servers) THEN m
    ELSE StartAll(start_container(m, env, servers[i]), env, servers, i + 1)

\* the reply for a relay's outcome r where no reply means None
RelayedOrNone(r, request) ==
    [r EXCEPT !.ret = IF r.ret # "none" THEN Relayed(request, r.ret) ELSE NoReply]

\* process_request from "If we have active containers" on; status: get_status's outcome
ForwardRunning(status, env, request) ==
    IF status.ret.running # <<>>
    THEN RelayedOrNone(_forward_to_container(status, env, status.ret.running[1]), request)
    ELSE [status EXCEPT !.ret = NoReply]

\* process_request from "Start all triggered containers" on; detected:
\* should_start_container's outcome
StartTriggered(detected, env, request) ==
    ForwardRunning(
        get_status(StartAll([detected EXCEPT !.detected = detected.ret], env, detected.ret, 1),
                   env),
        env, request)

\* ret: the servers to start for a request
_detect_triggers(m, env, request) == should_start_container(m, env, Lower(Dumps(request)))

\* process_request from "Detect triggers in request" on
ForwardTriggered(m, env, request) ==
    StartTriggered(should_start_container(m, env, Lower(Dumps(request))), env, request)

\* the server name a polymorphic tool name stands for
QueryServer(tool_name) == Replace(Replace(tool_name, <<"_", "query">>, <<>>), <<"_">>, <<"-">>)

\* the reply to a polymorphic call; r: _route_polymorphic_call's outcome
PolymorphicReply(r, request) ==
    [r EXCEPT !.ret =
        IF r.ret.kind = "raise"
        THEN [Error(request, "Polymorphic routing failed", r.ret.about) EXCEPT !.from = r.ret.what]
        ELSE [r.ret EXCEPT !.id = request.id]]

\* the reply to a legacy direct tool call; r: _forward_to_container's outcome
LegacyReply(r, request) ==
    [r EXCEPT !.ret =
        IF r.ret # "none"
        THEN Relayed(request, r.ret)
        ELSE Error(request, "Failed to execute tool on server", tool_to_server[request.name])]

\* tools/call from "Legacy: Check for meta-tool calls" on; meta: _handle_meta_tool_call's outcome
LegacyCall(meta, env, request) ==
    IF meta.ret.kind # "none"
    THEN meta
    ELSE IF request.name \in DOMAIN tool_to_server
    THEN LegacyReply(_forward_to_container(meta, env, tool_to_server[request.name]), request)
    ELSE ForwardTriggered(meta, env, request)

\* process_request of a JSON object; ret: the reply
process_request(m, env, request) ==
    CASE request.method = "initialize" -> [m EXCEPT !.ret = Result(request, "local")]
      [] request.method = "tools/list" -> [m EXCEPT !.ret = _handle_tools_list(request)]
      [] request.method = "tools/call" ->
            IF ~request.params_ok
            THEN [m EXCEPT !.ret = Raise("AttributeError")]
            ELSE IF request.name = <<"get_server_documentation">>
            THEN [m EXCEPT !.ret = _handle_get_server_documentation(request, request.server_name)]
            ELSE IF EndsWith(request.name, <<"_", "query">>)
            THEN PolymorphicReply(
                     _route_polymorphic_call(m, env, QueryServer(request.name), request.query),
                     request)
            ELSE LegacyCall(_handle_meta_tool_call(m, env, request), env, request)
      [] OTHER -> ForwardTriggered(m, env, request)

\* what run writes for the reply of process_request
Written(reply, line) ==
    CASE reply.kind = "none" -> [NoReply EXCEPT !.kind = "passthrough", !.id = line.id]
      [] reply.kind = "raise" -> Error(line, "Internal error", <<>>)
      [] OTHER -> reply

\* the lines written while an object was handled; r: process_request's outcome
WrittenLines(r, line) ==
    [r EXCEPT !.ret = [out |-> [i \in 1..r.notes |-> Notification] \o <<Written(r.ret, line)>>,
                       crashed |-> FALSE, reply |-> r.ret]]

\* One iteration of the loop of run.
\* ret: [out: the lines written, crashed: an exception left the loop, reply]
run_line(m, env, line) ==
    CASE line.kind = "blank" ->
            [m EXCEPT !.ret = [out |-> <<>>, crashed |-> FALSE, reply |-> NoReply]]
      [] line.kind = "text" ->
            [m EXCEPT !.ret = [out |-> <<[NoReply EXCEPT !.kind = "passthrough"]>>,
                               crashed |-> FALSE, reply |-> NoReply]]
      [] line.kind = "json" ->
            \* request.get raises in process_request and again in the handler
            [m EXCEPT !.ret = [out |-> <<>>, crashed |-> TRUE, reply |-> Raise("AttributeError")]]
      [] OTHER -> WrittenLines(process_request(m, env, line), line)

----------------------------------------------------------------------------
(* The registry files and the processes that write them.                   *)
(* files.dir maps a path to the inode it names ("none": no such file) and  *)
(* files.inodes maps an inode to the document it holds.  A document is     *)
(* "complete" (valid JSON, with the names under "servers"), "partial" (cut *)
(* short or garbled: no valid JSON) or "free" (the inode is not in use).   *)

\* RegistryStore._path, its .tmp sibling, and MCPDockerizer.registry_path
RegistryPath == "registry.json"
TmpPath == "registry.tmp"
DockerRegistryPath == "mcp-docker-registry.json"
Paths == {RegistryPath, TmpPath, DockerRegistryPath}

\* the threads of the pool of wrap-all, and the server each of them registers
Workers == {"w1", "w2"}
EntryName == [w \in Workers |-> IF w = "w1" THEN "a" ELSE "b"]

\* the process that runs MCPDockerizer.dockerize, and the server it registers
Dockerizer == "dockerize"
DockerizedName == "d"

\* every inode is named after the file it was first made for
Inodes == {"registry", "docker"} \cup Workers

Free == [state |-> "free", servers |-> {}]
Empty == [state |-> "partial", servers |-> {}]
Complete(servers) == [state |-> "complete", servers |-> servers]

\* the document a path names; Free if there is no such file
Document(fs, path) == IF fs.dir[path] = "none" THEN Free ELSE fs.inodes[fs.dir[path]]

\* RegistryStore.load and the read in dockerize: ok is false when json.load raises
load(fs, path) ==
    CASE Document(fs, path).state = "free" -> [ok |-> TRUE, servers |-> {}]
      [] Document(fs, path).state = "complete" ->
            [ok |-> TRUE, servers |-> Document(fs, path).servers]
      [] OTHER -> [ok |-> FALSE, servers |-> {}]

\* open(path, "w"): the file is created as inode fresh, or cut to length 0
OpenW(fs, path, fresh) ==
    IF fs.dir[path] = "none"
    THEN [dir |-> [fs.dir EXCEPT ![path] = fresh],
          inodes |-> [fs.inodes EXCEPT ![fresh] = Empty]]
    ELSE [fs EXCEPT !.inodes[fs.dir[path]] = Empty]

\* what an inode may hold after json.dump of data into it from offset 0: if
\* another writer's bytes are there already and the new document is not an
\* extension of them, bytes of the old one may remain behind the new one
Dumped(doc, data) ==
    IF doc.state = "complete" /\ ~(doc.servers \subseteq data)
    THEN {Complete(data), [state |-> "partial", servers |-> data]}
    ELSE {Complete(data)}

\* os.replace(tmp_path, path); tmp_path exists
Replaced(fs, tmp_path, path) ==
    [dir |-> [fs.dir EXCEPT ![path] = fs.dir[tmp_path], ![tmp_path] = "none"],
     inodes |-> IF fs.dir[path] \in {"none", fs.dir[tmp_path]}
                THEN fs.inodes
                ELSE [fs.inodes EXCEPT ![fs.dir[path]] = Free]]

\* a thread or process: pc is its position, data the document it has loaded
\* and changed, fd the inode its open file writes to
NotStarted == [pc |-> "start", data |-> {}, fd |-> "none"]

\* the registry files before anything was written, and no writer at work
NoFiles == [dir |-> [p \in Paths |-> "none"], inodes |-> [i \in Inodes |-> Free]]
NoWorkers == [w \in Workers \cup {Dockerizer} |-> NotStarted]

\* a registry document without servers
NoEntries == <<>>

----------------------------------------------------------------------------
(* The health checker: MCPHealthChecker.  Each method is an operator on a  *)
(* record h: now (the clock), cmds (the docker compose commands run so far *)
(* by the running call, each with the compose file it was given and        *)
(* whether the step it serves passed), ret (what the last step returned),  *)
(* ms (the response time the protocol step measured), raised (the          *)
(* exception that left the call, "" if none) and result (the               *)
(* HealthCheckResult).  env is what the engine will answer: l1, l2 and l3  *)
(* (how docker compose ps, the initialize call and the tools/list call     *)
(* end), ms (how long the initialize call takes) and restart (how docker   *)
(* compose restart ends).                                                  *)

\* _MAX_HEALTHY_RESPONSE_MS, in milliseconds
_MAX_HEALTHY_RESPONSE_MS == 5000

\* how docker compose ps may end: the service is listed as running, listed
\* in another state, not listed; the output is empty or cannot be parsed;
\* the exit status is not 0; the command times out or cannot be run
L1Outcomes ==
    {"running", "exited", "absent", "empty", "garbage", "nonzero", "timeout", "oserror"}

\* how the initialize call may end: a JSON-RPC response, a JSON object
\* without "jsonrpc", no JSON, no output, a timeout, or docker cannot be run
L2Outcomes == {"ok", "no_jsonrpc", "garbage", "empty", "timeout", "oserror"}

\* how the tools/list call may end: a response with a list of tools, one
\* without "tools", one whose "tools" is no list, no JSON, no output, a
\* timeout, or docker cannot be run
L3Outcomes == {"ok", "no_tools", "not_list", "garbage", "empty", "timeout", "oserror"}

\* the response times measured: below, at and above _MAX_HEALTHY_RESPONSE_MS
ResponseTimes == {100, 5000, 9000}

\* how docker compose restart may end
RestartOutcomes == {"ok", "nonzero", "timeout", "oserror"}

HealthEnvs ==
    [l1 : L1Outcomes, l2 : L2Outcomes, ms : ResponseTimes, l3 : L3Outcomes,
     restart : RestartOutcomes]

\* the directories that exist on disk
Exists(path) == path = "/src/present"

\* RegistryEntry, as far as the checker reads it.  container_config is the
\* compose_path of the ContainerConfig, or "none" for None
WrappedEntries ==
    [name : {"a"}, source_path : {"", "/src/present", "/src/missing"},
     container_config : {"a/docker-compose.yml"}]

CheckerEntries ==
    WrappedEntries
    \cup [name : {"a"}, source_path : {"/src/present", "/src/missing"},
          container_config : {"none"}]

NoEntry == [name |-> "", source_path |-> "", container_config |-> "none"]

\* an engine that was not asked
NoHealthEnv == [l1 |-> "running", l2 |-> "ok", ms |-> 100, l3 |-> "ok", restart |-> "ok"]

\* HealthCheckResult as check constructs it before the first level
Unchecked(h, entry) ==
    [server_name |-> entry.name, container_running |-> FALSE, protocol_responds |-> FALSE,
     tools_available |-> FALSE, response_time_ms |-> 0, status |-> "unknown",
     check_time |-> h.now]

NoResult == Unchecked([now |-> 0], NoEntry)

\* the checker before a call, at time t
Checker(t) ==
    [now |-> t, cmds |-> <<>>, ret |-> FALSE, ms |-> 0, raised |-> "", result |-> NoResult]

\* L1: docker compose ps; ret: the service is listed as running
_check_container_running(h, env, compose_path) ==
    [h EXCEPT !.cmds = Append(@, Cmd("compose ps", <<compose_path>>, env.l1 = "running")),
              !.ret = env.l1 = "running"]

\* L2: the initialize call; ret: a JSON-RPC response came, ms: the time it took
_check_protocol(h, env, compose_path) ==
    [h EXCEPT !.cmds = Append(@, Cmd("compose run initialize", <<compose_path>>, env.l2 = "ok")),
              !.ret = env.l2 = "ok",
              !.ms = env.ms]

\* L3: the tools/list call; ret: the response holds a list of tools
_check_tools_list(h, env, compose_path) ==
    [h EXCEPT !.cmds = Append(@, Cmd("compose run tools/list", <<compose_path>>, env.l3 = "ok")),
              !.ret = env.l3 = "ok"]

\* L4, had it taken a response time equal to the threshold for healthy
Classified_lenient(response_time_ms) ==
    IF response_time_ms <= _MAX_HEALTHY_RESPONSE_MS THEN "healthy" ELSE "unhealthy"

\* L4: the status for a response time
Classified(response_time_ms) ==
    IF response_time_ms < _MAX_HEALTHY_RESPONSE_MS THEN "healthy" ELSE "unhealthy"

\* check from "L3" on; l2: _check_protocol's outcome, l3: _check_tools_list's
CheckedL3(l2, l3, entry) ==
    IF ~l3.ret
    THEN [l3 EXCEPT !.result = [Unchecked(l3, entry) EXCEPT
                                   !.container_running = TRUE, !.protocol_responds = TRUE,
                                   !.response_time_ms = l2.ms, !.status = "unhealthy"]]
    ELSE [l3 EXCEPT !.result = [Unchecked(l3, entry) EXCEPT
                                   !.container_running = TRUE, !.protocol_responds = TRUE,
                                   !.tools_available = TRUE,
                                   !.response_time_ms = l2.ms,
                                   !.status = Classified(l2.ms)]]

\* check from "L2" on, had it kept the response time only when L2 passed
CheckedL2_unmeasured(l2, env, entry) ==
    IF ~l2.ret
    THEN [l2 EXCEPT !.result = [Unchecked(l2, entry) EXCEPT
                                   !.container_running = TRUE, !.status = "unhealthy"]]
    ELSE CheckedL3(l2, _check_tools_list(l2, env, entry.container_config), entry)

\* check from "L2" on; l2: _check_protocol's outcome
CheckedL2(l2, env, entry) ==
    IF ~l2.ret
    THEN [l2 EXCEPT !.result = [Unchecked(l2, entry) EXCEPT
                                   !.container_running = TRUE,
                                   !.response_time_ms = l2.ms, !.status = "unhealthy"]]
    ELSE CheckedL3(l2, _check_tools_list(l2, env, entry.container_config), entry)

\* check from "L1", had it gone on to the protocol step when L1 failed
CheckedL1_probing(l1, env, entry) ==
    IF ~l1.ret
    THEN [_check_protocol(l1, env, entry.container_config) EXCEPT
             !.result = [Unchecked(l1, entry) EXCEPT !.status = "stopped"]]
    ELSE CheckedL2(_check_protocol(l1, env, entry.container_config), env, entry)

\* check from "L1" on; l1: _check_container_running's outcome
CheckedL1(l1, env, entry) ==
    IF ~l1.ret
    THEN [l1 EXCEPT !.result = [Unchecked(l1, entry) EXCEPT !.status = "stopped"]]
    ELSE CheckedL2(_check_protocol(l1, env, entry.container_config), env, entry)

\* result: the HealthCheckResult; raised: _get_compose_path's ValueError
check(h, env, entry) ==
    IF entry.container_config = "none"
    THEN [h EXCEPT !.raised = "ValueError"]
    ELSE IF entry.source_path # "" /\ ~Exists(entry.source_path)
    THEN [h EXCEPT !.result = [Unchecked(h, entry) EXCEPT !.status = "source_missing"]]
    ELSE CheckedL1(_check_container_running(h, env, entry.container_config), env, entry)

\* _RECOVERY_WAIT_SECS, in seconds
_RECOVERY_WAIT_SECS == 5

\* time.sleep(seconds)
Slept(h, seconds) ==
    [h EXCEPT !.now = @ + seconds, !.cmds = Append(@, Cmd("sleep", <<>>, TRUE))]

\* attempt_recovery from "Re-validate with L1 + L2", had it also asked for the tools
RecoveredL1_thorough(l1, env, entry) ==
    IF ~l1.ret THEN [l1 EXCEPT !.ret = FALSE]
    ELSE _check_tools_list(_check_protocol(l1, env, entry.container_config), env,
                           entry.container_config)

\* attempt_recovery from "Re-validate with L1 + L2" on; l1: _check_container_running's outcome
RecoveredL1(l1, env, entry) ==
    IF ~l1.ret THEN [l1 EXCEPT !.ret = FALSE]
    ELSE _check_protocol(l1, env, entry.container_config)

\* ret: whether the server is healthy after the restart
attempt_recovery(h, env, entry) ==
    IF entry.container_config = "none"
    THEN [h EXCEPT !.raised = "ValueError"]
    ELSE IF env.restart # "ok"
    THEN [h EXCEPT !.cmds = Append(@, Cmd("compose restart", <<entry.container_config>>, FALSE)),
                   !.ret = FALSE]
    ELSE RecoveredL1(
             _check_container_running(
                 Slept([h EXCEPT !.cmds = Append(@, Cmd("compose restart",
                                                         <<entry.container_config>>, TRUE))],
                       _RECOVERY_WAIT_SECS),
                 env, entry.container_config),
             env, entry)

----------------------------------------------------------------------------
(* The registry store's records of health: RegistryStore.add, remove and   *)
(* update_health, as operators on data: the "servers" of the document that *)
(* load returned, name -> the serialized RegistryEntry.                    *)

\* _MAX_HEALTH_HISTORY
_MAX_HEALTH_HISTORY == 168

\* HealthSummary's last_check before any check: None
NoCheckTime == -1

\* HealthSummary() of a new RegistryEntry
NoHealthSummary ==
    [last_check |-> NoCheckTime, last_status |-> "unknown", consecutive_failures |-> 0,
     total_checks |-> 0]

\* the names of the servers that are wrapped, and the compose file of each
StoreNames == {"a", "b"}
ComposePath == [name \in StoreNames |->
                   IF name = "a" THEN "a/docker-compose.yml" ELSE "b/docker-compose.yml"]

\* the RegistryEntry _wrap_one constructs for a server
NewEntry(name, source_path) ==
    [name |-> name, source_path |-> source_path, container_config |-> ComposePath[name],
     health |-> NoHealthSummary, health_history |-> <<>>]

\* servers[entry.name] = _serialize(entry)
add(data, entry) ==
    [n \in DOMAIN data \cup {entry.name} |-> IF n = entry.name THEN entry ELSE data[n]]

\* del servers[name]
remove(data, name) == [n \in DOMAIN data \ {name} |-> data[n]]

\* history[-_MAX_HEALTH_HISTORY:], had the slice kept one entry more
Trimmed_long(history) ==
    IF Len(history) > _MAX_HEALTH_HISTORY + 1
    THEN SubSeq(history, Len(history) - _MAX_HEALTH_HISTORY, Len(history))
    ELSE history

\* history[-_MAX_HEALTH_HISTORY:]
Trimmed(history) ==
    IF Len(history) > _MAX_HEALTH_HISTORY
    THEN SubSeq(history, Len(history) - _MAX_HEALTH_HISTORY + 1, Len(history))
    ELSE history

\* the failure count, had it counted every status but healthy as a failure
Failures_strict(summary, status) ==
    IF status # "healthy" THEN summary.consecutive_failures + 1 ELSE 0

\* summary["consecutive_failures"] after a result of this status
Failures(summary, status) ==
    IF status \in {"unhealthy", "unknown"} THEN summary.consecutive_failures + 1 ELSE 0

\* the entry raw after update_health has recorded result in it
Recorded(raw, result) ==
    [raw EXCEPT
        !.health_history = Trimmed(Append(@, result)),
        !.health = [last_check |-> result.check_time,
                    last_status |-> result.status,
                    total_checks |-> @.total_checks + 1,
                    consecutive_failures |-> Failures(@, result.status)]]

update_health(data, name, result) ==
    IF name \notin DOMAIN data THEN data ELSE [data EXCEPT ![name] = Recorded(@, result)]

\* RegistryStore.get: the entry as the checker reads it
get(data, name) ==
    [name |-> data[name].name, source_path |-> data[name].source_path,
     container_config |-> data[name].container_config]

----------------------------------------------------------------------------
(* The manager driven through its methods *)

\* the manager's state at the start of a call
Mgr ==
    [activity_tracker |-> activity_tracker,
     running_containers |-> running_containers,
     engine |-> engine,
     now |-> now,
     cmds |-> <<>>,
     notes |-> 0,
     noted_at |-> <<>>,
     detected |-> <<>>,
     ret |-> FALSE]

\* a docker run that was never made
NoRun == [timeout |-> FALSE, rc |-> 0, out |-> <<>>]

\* the engine's answers to a call that asks docker ps and may start or stop servers
Envs(PsOk, Started, Stopped) ==
    [psOk : PsOk, startOk : SUBSET Started, stopOk : SUBSET Stopped, run : {NoRun}]

\* the servers cleanup_inactive may stop
AutoStopServers == {s \in Servers : Get(Registry[s], "autoStop", TRUE)}

\* the state after a call that ended in m
Commit(m) ==
    /\ activity_tracker' = m.activity_tracker
    /\ running_containers' = m.running_containers
    /\ engine' = m.engine
    /\ UNCHANGED <<files, workers, entries>>

\* what the caller of the last call observed.  op: the call ("none": taken
\* already), ret: a boolean result, message / detected: the text given to
\* trigger detection and its answer, entry / env / result / raised: the entry
\* given to the health checker, the engine's answers, the HealthCheckResult
\* and the exception that left the call, recover / recovery: whether the
\* health command was run with --recover and the engine's answers to the
\* recovery, to_stop: the servers a sweep chose,
\* status: get_status's lists, line / reply / relay: the line the gateway
\* read, process_request's reply to it and the docker run made for it
NoCall == [op |-> "none", server |-> <<>>, ret |-> FALSE, cmds |-> <<>>, notes |-> 0,
           noted_at |-> <<>>, message |-> <<>>, detected |-> <<>>,
           entry |-> NoEntry, env |-> NoHealthEnv, recovery |-> NoHealthEnv,
           result |-> NoResult, raised |-> "", recover |-> FALSE,
           to_stop |-> <<>>, status |-> [running |-> <<>>, stopped |-> <<>>],
           line |-> BlankLine, reply |-> NoReply, relay |-> NoRun]

Outcome(op, server_name, m) ==
    [NoCall EXCEPT !.op = op, !.server = server_name, !.cmds = m.cmds, !.notes = m.notes,
                   !.noted_at = m.noted_at, !.detected = m.detected]

\* no call is in flight: the caller has taken the last outcome
Idle == last.op = "none"

Init ==
    /\ activity_tracker = <<>>
    /\ running_containers = <<>>
    /\ engine \in SUBSET ContainerNames
    /\ now = 0
    /\ last = NoCall
    /\ pc = "idle"
    /\ stdout = <<>>
    /\ files = NoFiles
    /\ workers = NoWorkers
    /\ entries = NoEntries

\* a method that returns a boolean has ended in m
Called(op, server_name, m) ==
    /\ Commit(m)
    /\ last' = [Outcome(op, server_name, m) EXCEPT !.ret = m.ret]
    /\ UNCHANGED <<now, pc, stdout>>

IsRunning(s) ==
    /\ Idle
    /\ \E env \in Envs(BOOLEAN, {}, {}) : Called("is_running", s, is_container_running(Mgr, env, s))

Start(s) ==
    /\ Idle
    /\ \E env \in Envs(BOOLEAN, {s}, {}) : Called("start", s, start_container(Mgr, env, s))

Stop(s) ==
    /\ Idle
    /\ \E env \in Envs({TRUE}, {}, {s}) : Called("stop", s, stop_container(Mgr, env, s))

\* update_activity has ended in m
Updated(s, m) ==
    /\ Commit(m)
    /\ last' = Outcome("update_activity", s, m)
    /\ UNCHANGED <<now, pc, stdout>>

UpdateActivity(s) ==
    /\ Idle
    /\ Updated(s, update_activity(Mgr, s))

\* cleanup_inactive has ended in m
Swept(m) ==
    /\ Commit(m)
    /\ last' = [Outcome("sweep", <<>>, m) EXCEPT !.to_stop = m.ret]
    /\ UNCHANGED <<now, pc, stdout>>

Sweep ==
    /\ Idle
    /\ \E env \in Envs(BOOLEAN, {}, AutoStopServers) : Swept(cleanup_inactive(Mgr, env))

\* get_status has ended in m
Listed(m) ==
    /\ Commit(m)
    /\ last' = [Outcome("get_status", <<>>, m) EXCEPT !.status = m.ret]
    /\ UNCHANGED <<now, pc, stdout>>

GetStatus ==
    /\ Idle
    /\ \E env \in Envs(BOOLEAN, {}, {}) : Listed(get_status(Mgr, env))

\* the caller takes the outcome of the call
Return ==
    /\ ~Idle
    /\ last' = NoCall
    /\ stdout' = <<>>
    /\ UNCHANGED <<activity_tracker, running_containers, engine, now, pc, files, workers, entries>>

\* time passes
Tick ==
    /\ Idle
    /\ now < MaxTime
    /\ now' = now + 1
    /\ UNCHANGED <<activity_tracker, running_containers, engine, last, pc, stdout, files, workers, entries>>

\* a container dies, or is started, behind the manager's back
OutOfBand ==
    /\ Idle
    /\ \E c \in ContainerNames : engine' = IF c \in engine THEN engine \ {c} ELSE engine \cup {c}
    /\ UNCHANGED <<activity_tracker, running_containers, now, last, pc, stdout, files, workers, entries>>

Next ==
    \/ \E s \in Servers : IsRunning(s)
    \/ \E s \in Names : Start(s)
    \/ \E s \in Names : Stop(s)
    \/ \E s \in Servers : UpdateActivity(s)
    \/ Sweep
    \/ GetStatus
    \/ Return
    \/ Tick
    \/ OutOfBand

Spec == Init /\ [][Next]_vars

----------------------------------------------------------------------------
(* The gateway process: MCPProxy.run reads the inbound lines *)

Ids == {"1"}

Object(id, method) == [BlankLine EXCEPT !.kind = "object", !.id = id, !.method = method]

\* the name tools/list gives the polymorphic tool of a server
QueryTool(server_name) == Replace(server_name, <<"-">>, <<"_">>) \o <<"_", "query">>

Queries == {<<"search", " ", "x">>, <<"x">>}

\* what a message that is handled by no tool may say
Texts == {<<>>, <<".", "deeplake">>, <<"SEARCH">>, <<".", "deeplake", " ", "note">>}

ObjectLines ==
    UNION {
        {Object(id, "initialize"), Object(id, "tools/list")}
        \cup {[Object(id, "tools/call") EXCEPT !.name = <<"get_server_documentation">>,
                                               !.server_name = s] : s \in Names}
        \cup {[Object(id, "tools/call") EXCEPT !.name = QueryTool(s), !.query = q] :
                 s \in {DeeplakeRag, Notes, Unknown}, q \in Queries}
        \cup {[Object(id, "tools/call") EXCEPT !.name = <<"notes", "_", "tools">>, !.action = a] :
                 a \in {"load_tools", "check_status"}}
        \cup {[Object(id, "tools/call") EXCEPT !.name = <<"retrieve", "_", "context">>]}
        \cup {[Object(id, "tools/call") EXCEPT !.params_ok = FALSE]}
        \cup {[Object(id, "prompts/get") EXCEPT !.text = t] : t \in Texts}
    : id \in Ids}

Lines ==
    {BlankLine, [BlankLine EXCEPT !.kind = "text"], [BlankLine EXCEPT !.kind = "json"]}
        \cup ObjectLines

\* what a docker run may do: time out, or exit with rc having written out
RunOutcomes ==
    {[timeout |-> TRUE, rc |-> 0, out |-> <<>>]}
    \cup [timeout : {FALSE}, rc : {0},
          out : {<<>>, <<"init">>, <<"init", "result">>, <<"init", "error">>,
                 <<"init", "note", "result">>, <<"junk">>, <<"json">>}]
    \cup [timeout : {FALSE}, rc : {1}, out : {<<>>, <<"init", "result">>}]

\* the manager before anything ran, and an engine that answers but starts nothing
Quiet ==
    [activity_tracker |-> <<>>, running_containers |-> <<>>, engine |-> {},
     now |-> 0, cmds |-> <<>>, notes |-> 0, noted_at |-> <<>>, detected |-> <<>>,
     ret |-> FALSE]

NoEngine == [psOk |-> TRUE, startOk |-> {}, stopOk |-> {}, run |-> NoRun]

\* the servers among names
Registered(names) == {names[i] : i \in 1..Len(names)} \cap Servers

\* the servers a line may make the gateway start
MayStart(line) ==
    IF line.kind # "object" THEN {}
    ELSE Registered(should_start_container(Quiet, NoEngine, Lower(Dumps(line))).ret)
             \cup Registered(<<QueryServer(line.name), MetaToolServer(line.name, 1)>>)

\* whether a line may make the gateway run a container
MayRelay(line) ==
    /\ line.kind = "object"
    /\ line.params_ok
    /\ line.method \notin {"initialize", "tools/list"}
    /\ line.name # <<"get_server_documentation">>

\* the engine's answers while a line is handled
LineEnvs(line) ==
    [psOk : {TRUE},
     startOk : SUBSET MayStart(line),
     stopOk : IF line.kind = "json" THEN SUBSET AutoStopServers ELSE {{}},
     run : IF MayRelay(line) THEN RunOutcomes ELSE {NoRun}]

GatewayInit ==
    /\ activity_tracker = <<>>
    /\ running_containers = <<>>
    /\ engine \in SUBSET ContainerNames
    /\ now = 0
    /\ last = NoCall
    /\ pc = "reading"
    /\ stdout = <<>>
    /\ files = NoFiles
    /\ workers = NoWorkers
    /\ entries = NoEntries

\* whether a docker run was made
Ran(cmds) == \E i \in 1..Len(cmds) : cmds[i].cmd = "run"

\* the iteration ended in r, and in swept after the finally clause if it ran
LineDone(r, swept, env, line) ==
    /\ Commit(swept)
    /\ stdout' = r.ret.out \o (IF r.ret.crashed
                               THEN [i \in 1..swept.notes |-> Notification]
                               ELSE <<>>)
    /\ pc' = IF r.ret.crashed THEN "crashed" ELSE "reading"
    /\ last' = [Outcome("line", <<>>, swept) EXCEPT
                   !.notes = r.notes, !.line = line, !.reply = r.ret.reply,
                   !.relay = IF Ran(r.cmds) THEN env.run ELSE NoRun]
    /\ now' = now

\* an exception that leaves the loop runs the finally clause: cleanup_inactive
LineHandled(r, env, line) ==
    LineDone(r, IF r.ret.crashed THEN cleanup_inactive([r EXCEPT !.notes = 0], env) ELSE r,
             env, line)

\* run reads a line, handles it and writes the reply; an exception that
\* leaves the loop ends the process
ProcessLine(line) ==
    /\ pc = "reading"
    /\ Idle
    /\ \E env \in LineEnvs(line) : LineHandled(run_line(Mgr, env, line), env, line)

\* the finally clause at the end of input has ended in m
Ended(m) ==
    /\ Commit(m)
    /\ stdout' = [i \in 1..m.notes |-> Notification]
    /\ pc' = "done"
    /\ last' = [Outcome("eof", <<>>, m) EXCEPT !.to_stop = m.ret]
    /\ now' = now

\* end of input: the finally clause sweeps, and the process ends
Eof ==
    /\ pc = "reading"
    /\ Idle
    /\ \E env \in Envs({TRUE}, {}, AutoStopServers) : Ended(cleanup_inactive(Mgr, env))

GatewayNext ==
    \/ \E line \in Lines : ProcessLine(line)
    \/ Eof
    \/ Return
    \/ Tick
    \/ OutOfBand

GatewaySpec == GatewayInit /\ [][GatewayNext]_vars

\* the lines of a client that calls one server and is otherwise idle
EvictionLines ==
    {BlankLine, Object("1", "initialize"),
     [Object("1", "tools/call") EXCEPT !.name = QueryTool(DeeplakeRag), !.query = <<"x">>]}

EvictionNext ==
    \/ \E line \in EvictionLines : ProcessLine(line)
    \/ Eof
    \/ Return
    \/ Tick
    \/ OutOfBand

\* the gateway as it is scheduled: the clock advances, a line that can be
\* read is read and handled, and a reply that was written is taken
EvictionSpec ==
    /\ GatewayInit
    /\ [][EvictionNext]_vars
    /\ WF_vars(Tick)
    /\ WF_vars(Return)
    /\ WF_vars(\E line \in EvictionLines : ProcessLine(line))

----------------------------------------------------------------------------
(* The registry store under the workers of wrap-all, and dockerize: every  *)
(* step is one system call of one thread or process.                       *)

managerVars ==
    <<activity_tracker, running_containers, engine, now, last, pc, stdout, entries>>

StoreInit ==
    /\ activity_tracker = <<>>
    /\ running_containers = <<>>
    /\ engine = {}
    /\ now = 0
    /\ last = NoCall
    /\ pc = "idle"
    /\ stdout = <<>>
    /\ files \in {[dir |-> [p \in Paths |->
                              CASE p = RegistryPath /\ r -> "registry"
                                [] p = DockerRegistryPath /\ d -> "docker"
                                [] OTHER -> "none"],
                   inodes |-> [i \in Inodes |->
                                 IF (i = "registry" /\ r) \/ (i = "docker" /\ d)
                                 THEN Complete({"old"}) ELSE Free]] :
                     r \in BOOLEAN, d \in BOOLEAN}
    /\ workers = NoWorkers
    /\ entries = NoEntries

\* RegistryStore.add, line 199: data = self.load()
AddLoad(w) ==
    /\ workers[w].pc = "start"
    /\ workers' = [workers EXCEPT ![w] =
                      IF load(files, RegistryPath).ok
                      THEN [@ EXCEPT !.pc = "loaded",
                                     !.data = load(files, RegistryPath).servers
                                                  \cup {EntryName[w]}]
                      ELSE [@ EXCEPT !.pc = "failed"]]
    /\ UNCHANGED <<files, managerVars>>

\* RegistryStore.save, line 178: tmp_path.open("w")
SaveOpen(w) ==
    /\ workers[w].pc = "loaded"
    /\ files' = OpenW(files, TmpPath, w)
    /\ workers' = [workers EXCEPT ![w].pc = "opened", ![w].fd = files'.dir[TmpPath]]
    /\ UNCHANGED managerVars

\* RegistryStore.save, line 179: json.dump into the open file, and its close
SaveDump(w) ==
    /\ workers[w].pc = "opened"
    /\ \E doc \in Dumped(files.inodes[workers[w].fd], workers[w].data) :
           files' = [files EXCEPT !.inodes[workers[w].fd] = doc]
    /\ workers' = [workers EXCEPT ![w].pc = "written", ![w].fd = "none"]
    /\ UNCHANGED managerVars

\* RegistryStore.save, line 180: os.replace; it raises when the temporary
\* file is gone, and the handler at 181-187 unlinks it and raises again
SaveReplace(w) ==
    /\ workers[w].pc = "written"
    /\ IF files.dir[TmpPath] = "none"
       THEN /\ workers' = [workers EXCEPT ![w].pc = "failed"]
            /\ files' = files
       ELSE /\ workers' = [workers EXCEPT ![w].pc = "done"]
            /\ files' = Replaced(files, TmpPath, RegistryPath)
    /\ UNCHANGED managerVars

\* MCPDockerizer.dockerize, lines 616-622: read the registry and add the entry
DockerizeLoad ==
    /\ workers[Dockerizer].pc = "start"
    /\ workers' = [workers EXCEPT ![Dockerizer] =
                      IF load(files, DockerRegistryPath).ok
                      THEN [@ EXCEPT !.pc = "loaded",
                                     !.data = load(files, DockerRegistryPath).servers
                                                  \cup {DockerizedName}]
                      ELSE [@ EXCEPT !.pc = "failed"]]
    /\ UNCHANGED <<files, managerVars>>

\* MCPDockerizer.dockerize, line 624: open(self.registry_path, "w")
DockerizeOpen ==
    /\ workers[Dockerizer].pc = "loaded"
    /\ files' = OpenW(files, DockerRegistryPath, "docker")
    /\ workers' = [workers EXCEPT ![Dockerizer].pc = "opened",
                                  ![Dockerizer].fd = files'.dir[DockerRegistryPath]]
    /\ UNCHANGED managerVars

\* MCPDockerizer.dockerize, line 625: json.dump, and the close of the file
DockerizeDump ==
    /\ workers[Dockerizer].pc = "opened"
    /\ files' = [files EXCEPT !.inodes[workers[Dockerizer].fd] =
                                  Complete(workers[Dockerizer].data)]
    /\ workers' = [workers EXCEPT ![Dockerizer].pc = "done", ![Dockerizer].fd = "none"]
    /\ UNCHANGED managerVars

\* the process of p is killed, or the machine stops, between two system calls
Crash(p) ==
    /\ workers[p].pc \in {"loaded", "opened", "written"}
    /\ workers' = [q \in DOMAIN workers |->
                      IF (q \in Workers) = (p \in Workers) /\ workers[q].pc \notin {"done", "failed"}
                      THEN [workers[q] EXCEPT !.pc = "crashed", !.fd = "none"]
                      ELSE workers[q]]
    /\ UNCHANGED <<files, managerVars>>

StoreNext ==
    \/ \E w \in Workers : AddLoad(w)
    \/ \E w \in Workers : SaveOpen(w)
    \/ \E w \in Workers : SaveDump(w)
    \/ \E w \in Workers : SaveReplace(w)
    \/ DockerizeLoad
    \/ DockerizeOpen
    \/ DockerizeDump
    \/ \E p \in Workers \cup {Dockerizer} : Crash(p)

StoreSpec == StoreInit /\ [][StoreNext]_vars

----------------------------------------------------------------------------
(* The health checker called by its methods, and by the health command of  *)
(* the command line (cli.py, health) for one registered server             *)

\* the most checks recorded for a server
MaxChecks == 3

\* the engine answers only what it is asked: a level that is not run after
\* the failure of an earlier one has no answer to draw
Asked(env) ==
    /\ env.l1 # "running" => env.l2 = "ok" /\ env.ms = 100 /\ env.l3 = "ok"
    /\ env.l2 # "ok" => env.l3 = "ok"

\* the engine's answers to check, and to attempt_recovery
CheckEnvs == {env \in HealthEnvs : Asked(env) /\ env.restart = "ok"}
RecoveryEnvs ==
    {env \in HealthEnvs :
        /\ Asked(env) /\ env.l3 = "ok" /\ env.ms = 100
        /\ env.restart # "ok" => env.l1 = "running" /\ env.l2 = "ok"}

\* the engine's answers to the health command
CommandEnvs ==
    {env \in [l1 : {"running", "exited"}, l2 : {"ok", "timeout"}, ms : {100, 5000},
              l3 : {"ok", "no_tools"}, restart : {"ok", "nonzero"}] :
        Asked(env) /\ (env.restart # "ok" => env.l1 = "running" /\ env.l2 = "ok")}

HealthInit ==
    /\ activity_tracker = <<>>
    /\ running_containers = <<>>
    /\ engine = {}
    /\ now = 0
    /\ last = NoCall
    /\ pc = "idle"
    /\ stdout = <<>>
    /\ files = NoFiles
    /\ workers = NoWorkers
    /\ entries \in {add(NoEntries, NewEntry("a", source_path)) :
                       source_path \in {"/src/present", "/src/missing"}}

\* a method of the checker, called with entry, has ended in h
Checked(op, h, env, entry) ==
    /\ last' = [NoCall EXCEPT !.op = op, !.cmds = h.cmds, !.ret = h.ret, !.entry = entry,
                              !.env = env, !.result = h.result, !.raised = h.raised]
    /\ now' = h.now
    /\ UNCHANGED <<activity_tracker, running_containers, engine, pc, stdout, files, workers,
                   entries>>

Check(entry) ==
    /\ Idle
    /\ \E env \in CheckEnvs : Checked("check", check(Checker(now), env, entry), env, entry)

AttemptRecovery(entry) ==
    /\ Idle
    /\ now < MaxTime
    /\ \E env \in RecoveryEnvs :
           Checked("attempt_recovery", attempt_recovery(Checker(now), env, entry), env, entry)

\* the health command has ended: checked is check's outcome, h the outcome of
\* the recovery if one was made, and data the servers then saved
HealthDone(checked, h, data, env, recovery, entry, recover) ==
    /\ last' = [NoCall EXCEPT !.op = "health", !.cmds = h.cmds, !.ret = h.ret, !.entry = entry,
                              !.env = env, !.recovery = recovery, !.recover = recover,
                              !.result = checked.result, !.raised = h.raised]
    /\ now' = h.now
    /\ entries' = data
    /\ UNCHANGED <<activity_tracker, running_containers, engine, pc, stdout, files, workers>>

\* the body of the loop of health from "Persist to registry" on
HealthChecked(checked, env, entry, recover) ==
    IF checked.raised # ""
    THEN HealthDone(checked, [checked EXCEPT !.raised = ""], entries, env, NoHealthEnv, entry,
                    recover)
    ELSE IF recover /\ checked.result.status = "unhealthy"
    THEN \E recovery \in CommandEnvs :
             HealthDone(checked, attempt_recovery(checked, recovery, entry),
                        update_health(entries, entry.name, checked.result), env, recovery,
                        entry, recover)
    ELSE HealthDone(checked, checked, update_health(entries, entry.name, checked.result), env,
                    NoHealthEnv, entry, recover)

\* mcplibrarian health <name> [--recover]
Health(name, recover) ==
    /\ Idle
    /\ now < MaxTime
    /\ name \in DOMAIN entries
    /\ entries[name].health.total_checks < MaxChecks
    /\ \E env \in CommandEnvs :
           HealthChecked(check(Checker(now), env, get(entries, name)), env, get(entries, name),
                         recover)

HealthNext ==
    \/ \E entry \in WrappedEntries : Check(entry)
    \/ \E entry \in WrappedEntries : AttemptRecovery(entry)
    \/ \E name \in StoreNames, recover \in BOOLEAN : Health(name, recover)
    \/ Return

HealthSpec == HealthInit /\ [][HealthNext]_vars

----------------------------------------------------------------------------
(* The health checker and the lifecycle manager called at their boundary:  *)
(* with every entry a caller may hold, one that was never wrapped          *)
(* included, and with an engine that may be missing from the host          *)

\* the methods of the manager that run docker first thing for a registered server
EngineMethods == {"is_running", "start", "stop"}

\* subprocess.run cannot find docker: FileNotFoundError leaves the method,
\* which handles CalledProcessError only, before it has changed anything
EngineMissing(op, s) ==
    /\ Idle
    /\ last' = [NoCall EXCEPT !.op = op, !.server = s, !.raised = "FileNotFoundError"]
    /\ UNCHANGED <<activity_tracker, running_containers, engine, now, pc, stdout, files,
                   workers, entries>>

BoundaryNext ==
    \/ \E entry \in CheckerEntries : Check(entry)
    \/ \E entry \in CheckerEntries : AttemptRecovery(entry)
    \/ \E s \in Servers : IsRunning(s)
    \/ \E s \in Names : Start(s)
    \/ \E s \in Names : Stop(s)
    \/ \E op \in EngineMethods, s \in Servers : EngineMissing(op, s)
    \/ Return

BoundarySpec == Init /\ [][BoundaryNext]_vars

----------------------------------------------------------------------------
(* The registry store's records of health under wrap, remove and the       *)
(* recording of check results.  now is the clock the results are stamped   *)
(* with.                                                                   *)

HealthStatuses == {"healthy", "unhealthy", "stopped", "unknown", "source_missing"}

\* a HealthCheckResult of a status for a server, made at time t
ResultWith(name, status, t) ==
    [server_name |-> name,
     container_running |-> status \in {"healthy", "unhealthy"},
     protocol_responds |-> status = "healthy",
     tools_available |-> status = "healthy",
     response_time_ms |-> IF status = "healthy" THEN 100 ELSE 0,
     status |-> status,
     check_time |-> t]

\* the entry of a server that was wrapped and has been found healthy by
\* every check since, one check short of a full history
LongEntry(name) ==
    [NewEntry(name, "/src/present") EXCEPT
        !.health_history = [i \in 1..(_MAX_HEALTH_HISTORY - 1) |->
                               ResultWith(name, "healthy", i - _MAX_HEALTH_HISTORY - 1)],
        !.health = [last_check |-> -2, last_status |-> "healthy", consecutive_failures |-> 0,
                    total_checks |-> _MAX_HEALTH_HISTORY - 1]]

HistoryInit ==
    /\ activity_tracker = <<>>
    /\ running_containers = <<>>
    /\ engine = {}
    /\ now = 0
    /\ last = NoCall
    /\ pc = "idle"
    /\ stdout = <<>>
    /\ files = NoFiles
    /\ workers = NoWorkers
    /\ entries \in {NoEntries, add(NoEntries, LongEntry("a"))}

\* an operation of the store on name has ended with the servers data saved
Stored(op, name, result, data) ==
    /\ entries' = data
    /\ last' = [NoCall EXCEPT !.op = op, !.entry = [NoEntry EXCEPT !.name = name],
                              !.result = result]
    /\ UNCHANGED <<activity_tracker, running_containers, engine, pc, stdout, files, workers>>

\* mcplibrarian wrap: _wrap_one registers the entry it has built
Add(name) ==
    /\ Idle
    /\ Stored("add", name, NoResult, add(entries, NewEntry(name, "/src/present")))
    /\ UNCHANGED now

\* mcplibrarian remove
Remove(name) ==
    /\ Idle
    /\ Stored("remove", name, NoResult, remove(entries, name))
    /\ UNCHANGED now

\* update_health(name, result) with the result of a check made now
UpdateHealth(name, status) ==
    /\ Idle
    /\ now < MaxChecks
    /\ Stored("update_health", name, ResultWith(name, status, now),
              update_health(entries, name, ResultWith(name, status, now)))
    /\ now' = now + 1

HistoryNext ==
    \/ \E name \in StoreNames : Add(name)
    \/ \E name \in StoreNames : Remove(name)
    \/ \E name \in StoreNames, status \in HealthStatuses : UpdateHealth(name, status)
    \/ Return

HistorySpec == HistoryInit /\ [][HistoryNext]_vars

----------------------------------------------------------------------------
(* The names of the polymorphic tools: tools/list advertises one for every *)
(* key of a registry, and a tools/call with an advertised name is resolved *)
(* to a server name.  last.detected holds the keys of the registry,        *)
(* last.reply the answer to tools/list, last.notes the position of the     *)
(* tool that is called and last.server the name it is resolved to.         *)

\* the longest registry key
MaxKeyLen == 3

\* the keys a registry may have: any text of letters, '-', '_' and "query"
KeySyms == {"a", "-", "_", "query"}
Keys == UNION {[1..n -> KeySyms] : n \in 1..MaxKeyLen}

\* tools/list of a gateway whose registry has the two keys
ListTools(keys) ==
    /\ Idle
    /\ last' = [NoCall EXCEPT !.op = "tools_list", !.detected = keys,
                              !.reply = ToolsListed(Object("1", "tools/list"), keys)]
    /\ UNCHANGED <<activity_tracker, running_containers, engine, now, pc, stdout, files,
                   workers, entries>>

\* tools/call with the i-th name of the list: process_request resolves it
CallListed(i) ==
    /\ last.op = "tools_list"
    /\ i \in 1..Len(last.detected)
    /\ EndsWith(last.reply.tools[i], <<"_", "query">>)
    /\ last' = [last EXCEPT !.op = "resolve", !.notes = i, !.message = last.reply.tools[i],
                            !.server = QueryServer(last.reply.tools[i])]
    /\ UNCHANGED <<activity_tracker, running_containers, engine, now, pc, stdout, files,
                   workers, entries>>

NamingNext ==
    \/ \E k1 \in Keys : \E k2 \in Keys \ {k1} : ListTools(<<k1, k2>>)
    \/ \E i \in 1..2 : CallListed(i)
    \/ Return

\* a gateway that has started no container
NamingInit == Init /\ engine = {}

NamingSpec == NamingInit /\ [][NamingNext]_vars

----------------------------------------------------------------------------
(* The manager on a host whose engine also runs a container that is not of *)
(* the registry and whose name begins with the container name of a server  *)

\* a container of another project on the same host: mcp-web-2
Neighbour == WebFetchConfig.container_name \o <<"-", "2">>

NeighbourInit ==
    /\ activity_tracker = <<>>
    /\ running_containers = <<>>
    /\ engine \in SUBSET (ContainerNames \cup {Neighbour})
    /\ now = 0
    /\ last = NoCall
    /\ pc = "idle"
    /\ stdout = <<>>
    /\ files = NoFiles
    /\ workers = NoWorkers
    /\ entries = NoEntries

NeighbourNext ==
    \/ \E s \in Servers : IsRunning(s)
    \/ \E s \in Servers : Start(s)
    \/ \E s \in Servers : Stop(s)
    \/ Return

NeighbourSpec == NeighbourInit /\ [][NeighbourNext]_vars

----------------------------------------------------------------------------
(* Trigger detection asked for the servers a text activates, by the        *)
(* manager's should_start_container and by the gateway's _detect_triggers  *)

\* the most words in a text given to trigger detection
MaxWords == 3

\* the words of a text: an address of each friendly name, a dot before a
\* longer word that starts with a friendly name, a friendly name without its
\* dot, a trigger in upper case and a trigger in lower case
Words ==
    {<<".", "deeplake">>, <<".", "web">>, <<".", "deeplake", "web">>, <<"deeplake">>,
     <<"SEARCH">>, <<"note">>}

\* " ".join(words)
RECURSIVE Join(_)
Join(words) ==
    IF words = <<>> THEN <<>>
    ELSE IF Len(words) = 1 THEN words[1]
    ELSE words[1] \o <<" ">> \o Join(Tail(words))

DetectTexts == {Join(words) : words \in UNION {[1..n -> Words] : n \in 0..MaxWords}}

\* a request that carries text
Prompt(text) == [Object("1", "prompts/get") EXCEPT !.text = text]

\* trigger detection, asked about message, has ended in m
Detected(op, message, m) ==
    /\ Commit(m)
    /\ last' = [Outcome(op, <<>>, m) EXCEPT !.message = message, !.detected = m.ret]
    /\ UNCHANGED <<now, pc, stdout>>

Detect(message) ==
    /\ Idle
    /\ \E env \in Envs(BOOLEAN, {}, {}) :
           Detected("detect", message, should_start_container(Mgr, env, message))

DetectTriggers(text) ==
    /\ Idle
    /\ \E env \in Envs(BOOLEAN, {}, {}) :
           Detected("detect_triggers", text, _detect_triggers(Mgr, env, Prompt(text)))

DetectNext ==
    \/ \E message \in DetectTexts : Detect(message)
    \/ \E text \in DetectTexts : DetectTriggers(text)
    \/ Return
    \/ OutOfBand

DetectSpec == Init /\ [][DetectNext]_vars

----------------------------------------------------------------------------
(* Properties of the lifecycle manager, checked under Spec.  A step of a   *)
(* call is recognised by last'.op; the unprimed variables are the state    *)
(* the call started in.                                                    *)

\* the command c is among cmds
Issued(cmds, c) == \E i \in 1..Len(cmds) : cmds[i] = c

\* the positions of the engine start commands in cmds
StartsIssued(cmds) == {i \in 1..Len(cmds) : cmds[i].cmd \in {"start", "compose up"}}

\* the call that ran cmds ran the engine stop command of s
StopIssued(cmds, s) == Issued(cmds, StopCmd(s, TRUE)) \/ Issued(cmds, StopCmd(s, FALSE))

\* the engine reports s running to the call that ran cmds: it lists a
\* container under s's container name, and no docker ps for s failed
EngineReports(cmds, s) ==
    /\ s \in Servers
    /\ \E n \in engine : Contains(n, Registry[s].container_name)
    /\ ~Issued(cmds, Cmd("ps", Registry[s].container_name, FALSE))

C2_StartOnRunning ==
    [][(last'.op = "start" /\ EngineReports(last'.cmds, last'.server)) =>
        /\ last'.ret
        /\ activity_tracker' =
               [k \in DOMAIN activity_tracker \cup {last'.server} |->
                   IF k = last'.server THEN now ELSE activity_tracker[k]]
        /\ StartsIssued(last'.cmds) = {}
        /\ last'.notes = 0
        /\ UNCHANGED <<engine, running_containers>>]_vars

\* start was called a second time on a server it had started before, later
C2_Witness ==
    /\ last.op = "start"
    /\ last.ret
    /\ StartsIssued(last.cmds) = {}
    /\ last.server \in DOMAIN running_containers
    /\ now > 0
    /\ activity_tracker[last.server] = now

\* C3: when the engine start command fails, start(s) returns failure, leaves
\* the activity records and the running flags as they were, fires no change
\* notification, and has run the engine start command exactly once.
C3_StartFailure ==
    [][(/\ last'.op = "start"
        /\ last'.server \in Servers
        /\ Issued(last'.cmds, StartCmd(last'.server, FALSE))) =>
        /\ ~last'.ret
        /\ UNCHANGED <<activity_tracker, running_containers, engine>>
        /\ last'.notes = 0
        /\ Cardinality(StartsIssued(last'.cmds)) = 1]_vars

\* the engine start command of a server has failed
C3_Witness ==
    /\ last.op = "start"
    /\ last.server \in Servers
    /\ Issued(last.cmds, StartCmd(last.server, FALSE))
    /\ ~last.ret

\* C4: stop(s) runs the engine stop command once; when it succeeds s's
\* activity record and running flag are cleared and success is returned, when
\* it fails both are left as they were and failure is returned.
C4_StopOutcome ==
    [][(last'.op = "stop" /\ last'.server \in Servers) =>
        /\ Issued(last'.cmds, StopCmd(last'.server, TRUE)) =>
              /\ last'.ret
              /\ last'.server \notin DOMAIN activity_tracker'
              /\ last'.server \notin DOMAIN running_containers'
        /\ Issued(last'.cmds, StopCmd(last'.server, FALSE)) =>
              /\ ~last'.ret
              /\ UNCHANGED <<activity_tracker, running_containers>>
        /\ Len(last'.cmds) = 1
        /\ StopIssued(last'.cmds, last'.server)]_vars

\* the stop of a started server has failed, and its records are still there
C4_Witness ==
    /\ last.op = "stop"
    /\ ~last.ret
    /\ last.server \in DOMAIN activity_tracker
    /\ last.server \in DOMAIN running_containers

\* C5: is_running(s) is the engine's answer, whatever the local running
\* flag says; get_status lists s as running exactly when the engine reports
\* it and as stopped otherwise; and start(s) on a server the engine does not
\* report runs the engine start command, whether s was started before or not.
C5_EngineIsAuthoritative ==
    [][/\ last'.op = "is_running" =>
             (last'.ret <=> EngineReports(last'.cmds, last'.server))
       /\ last'.op = "get_status" =>
             \A s \in Servers :
                 /\ InSeq(s, last'.status.running) <=> EngineReports(last'.cmds, s)
                 /\ InSeq(s, last'.status.stopped) <=> ~EngineReports(last'.cmds, s)
       /\ (/\ last'.op = "start"
           /\ last'.server \in Servers
           /\ ~EngineReports(last'.cmds, last'.server)) =>
             StartsIssued(last'.cmds) # {}]_vars

\* is_running is false for a server the manager has started and whose
\* container is gone
C5_Witness ==
    /\ last.op = "is_running"
    /\ ~last.ret
    /\ last.server \in DOMAIN running_containers
    /\ Registry[last.server].container_name \notin engine
    /\ Issued(last.cmds, Cmd("ps", Registry[last.server].container_name, TRUE))

\* the commands of cmds that stopped a server
StopsDone(cmds) ==
    {i \in 1..Len(cmds) : cmds[i].cmd \in {"stop", "compose down"} /\ cmds[i].ok}

\* C14: a sweep that stops one or more servers fires the change notification
\* exactly once, after the last of its stop commands; a sweep that finds no
\* server to stop (inactivity not above the delay) fires nothing.
C14_OneNotificationPerSweep ==
    [][last'.op = "sweep" =>
        /\ StopsDone(last'.cmds) # {} =>
              /\ last'.notes = 1
              /\ last'.noted_at = <<Len(last'.cmds)>>
              /\ \A i \in StopsDone(last'.cmds) : i <= last'.noted_at[1]
        /\ (\A s \in Servers : ~StopIssued(last'.cmds, s)) => last'.notes = 0]_vars

\* a sweep has stopped two servers and has notified once
C14_Witness ==
    /\ last.op = "sweep"
    /\ Cardinality(StopsDone(last.cmds)) = 2
    /\ last.notes = 1

\* C15: every call of the manager that changes the set of running servers
\* (a start command that succeeds, a stop_container call that stops a running
\* server, a sweep that stops a server) invokes the change notification.
C15_RunningSetChangeNotifies ==
    [][/\ (last'.op = "start" /\ \E i \in StartsIssued(last'.cmds) : last'.cmds[i].ok) =>
             last'.notes >= 1
       /\ (/\ last'.op = "stop"
           /\ last'.server \in Servers
           /\ Registry[last'.server].container_name \in engine
           /\ Issued(last'.cmds, StopCmd(last'.server, TRUE))) =>
             last'.notes >= 1
       /\ (last'.op = "sweep" /\ StopsDone(last'.cmds) # {}) =>
             last'.notes >= 1]_vars

\* the activity records with the one of s set to the time t
Marked(s, t) ==
    [k \in DOMAIN activity_tracker \cup {s} |-> IF k = s THEN t ELSE activity_tracker[k]]

\* C16: update_activity(s) sets s's last activity to now and touches nothing
\* else, as does a start that succeeds; no other call moves a record forward;
\* and a sweep leaves alone every server whose record is not older than its
\* autoStopDelay: inactivity is measured from the most recent of them.
C16_ActivityResets ==
    [][/\ last'.op = "update_activity" =>
             /\ activity_tracker' = Marked(last'.server, now)
             /\ UNCHANGED <<engine, running_containers>>
       /\ (last'.op = "start" /\ last'.ret) => activity_tracker' = Marked(last'.server, now)
       /\ last'.op \in {"is_running", "get_status", "none"} => UNCHANGED activity_tracker
       /\ last'.op \in {"stop", "sweep"} =>
             \A s \in DOMAIN activity_tracker' :
                 s \in DOMAIN activity_tracker /\ activity_tracker'[s] = activity_tracker[s]
       /\ last'.op = "sweep" =>
             \A s \in DOMAIN activity_tracker \cap Servers :
                 now - activity_tracker[s] <= Get(Registry[s], "autoStopDelay", 300) =>
                     ~StopIssued(last'.cmds, s)]_vars

\* a sweep has stopped a server that was idle since time 0 and has left alone
\* a started server with the same delay whose activity was marked later
C16_Witness ==
    /\ last.op = "sweep"
    /\ Issued(last.cmds, StopCmd(WebFetch, TRUE))
    /\ ~StopIssued(last.cmds, DeeplakeRag)
    /\ Issued(last.cmds, Cmd("ps", DeeplakeRagConfig.container_name, TRUE))
    /\ DeeplakeRagConfig.container_name \in engine
    /\ DeeplakeRag \in DOMAIN running_containers
    /\ now = 2 * DeeplakeRagConfig.autoStopDelay
    /\ activity_tracker[DeeplakeRag] = DeeplakeRagConfig.autoStopDelay
    /\ WebFetchConfig.autoStopDelay = DeeplakeRagConfig.autoStopDelay

\* C17: stop(s) on a server that the engine does not run returns success
\* and changes nothing: no activity record, no running flag, no container.
C17_StopNotRunningIsNoop ==
    [][(/\ last'.op = "stop"
        /\ last'.server \in Servers
        /\ ~\E n \in engine : Contains(n, Registry[last'.server].container_name)) =>
        /\ last'.ret
        /\ UNCHANGED <<activity_tracker, running_containers, engine>>]_vars

----------------------------------------------------------------------------
(* Properties of the gateway, checked under GatewaySpec on the state after *)
(* a line was handled.                                                     *)

\* the line handled last is a tools/call of tool_name
ToolCall(tool_name) ==
    /\ last.op = "line"
    /\ last.line.kind = "object"
    /\ last.line.method = "tools/call"
    /\ last.line.params_ok
    /\ last.line.name = tool_name

\* the lines on the output that are no change notifications
Replies == {i \in 1..Len(stdout) : stdout[i].kind # "notification"}

\* C6: for a tools/call of the polymorphic tool of a registered server, the
\* relay is made only when the server runs (no start command has failed) and
\* its activity is marked, and a failed start is answered with an error.
C6_RelayOnlyWhenRunning ==
    \A s \in Servers :
        ToolCall(QueryTool(s)) =>
            /\ Ran(last.cmds) =>
                  /\ ~Issued(last.cmds, StartCmd(s, FALSE))
                  /\ s \in DOMAIN activity_tracker
            /\ Issued(last.cmds, StartCmd(s, FALSE)) => last.reply.kind = "error"

\* C7: what the relay returns as the answer to the real request is the
\* container's response to it, never the response to initialize and never
\* another line, however many lines the container wrote.
C7_RelayReturnsRealResponse ==
    (last.op = "line" /\ Ran(last.cmds)) => last.reply.from \notin {"init", "note"}

\* C8: for every non-empty line read, exactly one reply line is on the
\* output when the line has been handled, and the loop reads on.
C8_OneReplyPerLine ==
    (last.op = "line" /\ last.line.kind # "blank") =>
        /\ Cardinality(Replies) = 1
        /\ pc = "reading"

\* C9: an exception raised while a line is handled is answered with one
\* JSON-RPC error and the loop reads on; the loop ends at end of input only.
C9_ExceptionsBecomeErrors ==
    /\ pc \in {"reading", "done"}
    /\ (last.op = "line" /\ last.reply.kind = "raise") =>
           \E i \in 1..Len(stdout) : stdout[i].kind = "error" /\ stdout[i].code # 0

\* s runs and its last activity is longer ago than its autoStopDelay
Overdue(s) ==
    /\ Registry[s].container_name \in engine
    /\ s \in DOMAIN activity_tracker
    /\ now - activity_tracker[s] > Get(Registry[s], "autoStopDelay", 300)

\* C13: while the gateway keeps reading, a server with autoStop enabled
\* that runs and has been inactive for longer than its autoStopDelay is
\* eventually stopped (or becomes active again); checked under EvictionSpec.
C13_EventuallyEvicted ==
    \A s \in AutoStopServers :
        [](Overdue(s) => <>(~Overdue(s) \/ pc # "reading"))

\* the line handled last refers to server x, which cannot be resolved: as
\* tool <x>_query or as get_server_documentation's server_name when x is not
\* registered, or as get_server_documentation's server_name when x has no manifest
Unresolvable(x) ==
    \/ x \notin Servers /\ ToolCall(x \o <<"_", "query">>)
    \/ /\ ToolCall(<<"get_server_documentation">>)
       /\ last.line.server_name = x
       /\ \/ x \notin Servers
          \/ Get(Registry[x], "manifest_path", "") \notin DOMAIN Manifests

\* C10: a tools/call that refers to a server that cannot be resolved is
\* answered with one JSON-RPC error with a non-zero code that names the
\* server; the loop reads on, the message is not passed through and no
\* engine command is run.
C10_UnknownServerError ==
    \A x \in Names :
        Unresolvable(x) =>
            /\ last.reply.kind = "error"
            /\ last.reply.code # 0
            /\ last.reply.about = x
            /\ stdout = <<last.reply>>
            /\ last.cmds = <<>>
            /\ pc = "reading"

\* a tools/call of unknown_query has been answered with an error
C10_Witness ==
    /\ ToolCall(Unknown \o <<"_", "query">>)
    /\ last.reply.kind = "error"
    /\ last.reply.about = Unknown
    /\ stdout = <<last.reply>>

----------------------------------------------------------------------------
(* Properties of the registry files, checked under StoreSpec. *)

\* C11: the load-mutate-save cycles of concurrent workers do not interleave:
\* when every worker's add has returned, the registry file is a complete
\* document that holds every worker's entry and the entries it held before.
C11_NoLostUpdate ==
    (\A w \in Workers : workers[w].pc = "done") =>
        /\ Document(files, RegistryPath).state = "complete"
        /\ \A w \in Workers : EntryName[w] \in Document(files, RegistryPath).servers

\* C12: at every point of every write, a crash included, a registry file
\* that exists holds a complete document, the previous one or the new one.
C12_NeverPartial ==
    \A p \in {RegistryPath, DockerRegistryPath} : Document(files, p).state # "partial"

\* C40: concurrent saves do not interfere through the temporary file: the
\* os.replace of every save succeeds, and the document it makes visible at
\* the registry path is the complete document that this save has dumped.
C40_SavesDoNotInterfere ==
    [][\A w \in Workers :
          workers[w].pc = "written" /\ workers'[w].pc \in {"done", "failed"} =>
              /\ workers'[w].pc = "done"
              /\ Document(files', RegistryPath) = Complete(workers[w].data)]_vars

----------------------------------------------------------------------------
(* Properties of trigger detection, checked under DetectSpec.  last holds  *)
(* the text detection was asked about and the list it answered; detection  *)
(* leaves the engine as it was, so engine is the engine it asked.          *)

\* trigger detection has answered
Answered == last.op \in {"detect", "detect_triggers"}

\* the number of times s occurs in seq
Count(s, seq) == Cardinality({i \in 1..Len(seq) : seq[i] = s})

\* the position of s in the registry
RegIndex(s) == CHOOSE i \in 1..Len(RegistryKeys) : RegistryKeys[i] = s

\* s has a friendly name that no earlier entry of the registry has
Named(s) ==
    /\ "friendly_name" \in DOMAIN Registry[s]
    /\ \A i \in 1..(RegIndex(s) - 1) :
           Get(Registry[RegistryKeys[i]], "friendly_name", <<>>) # Registry[s].friendly_name

\* a dot at position i of message is followed by exactly the word x
TokenAt(message, x, i) ==
    /\ i + Len(x) <= Len(message)
    /\ message[i] = "."
    /\ SubSeq(message, i + 1, i + Len(x)) = x
    /\ i + Len(x) < Len(message) => ~IsWordSym(message[i + Len(x) + 1])

\* the positions in message of the tokens that address s
Tokens(message, s) ==
    IF Named(s) THEN {i \in 1..Len(message) : TokenAt(message, Registry[s].friendly_name, i)}
    ELSE {}

\* message addresses s explicitly
Addresses(message, s) == Tokens(message, s) # {}

\* where message first addresses s
FirstToken(message, s) == CHOOSE i \in Tokens(message, s) : \A j \in Tokens(message, s) : i <= j

\* a trigger of s is a part of message, ignoring case
KeywordHit(message, s) ==
    \E k \in 1..Len(Get(Registry[s], "triggers", <<>>)) :
        Contains(Lower(message), Lower(Registry[s].triggers[k]))

C19_KeywordUnion ==
    Answered =>
        /\ \A s \in Servers : Count(s, last.detected) <= 1
        /\ \A s \in Servers :
               InSeq(s, last.detected) <=>
                   \/ Addresses(last.message, s)
                   \/ KeywordHit(last.message, s) /\ ~EngineReports(last.cmds, s)
        /\ \A i \in 1..Len(last.detected) : last.detected[i] \in Servers

\* a text that addresses deeplake-rag and holds its trigger in upper case, and
\* holds in lower case the trigger notes registered capitalised, was answered
\* with deeplake-rag once and with notes
C19_Witness ==
    /\ Answered
    /\ Addresses(last.message, DeeplakeRag)
    /\ InSeq("SEARCH", last.message)
    /\ InSeq("note", last.message)
    /\ Count(DeeplakeRag, last.detected) = 1
    /\ Count(Notes, last.detected) = 1

\* C20: in the returned list the explicitly addressed servers come first, in
\* the order in which their tokens first occur in the text, and the
\* keyword-matched servers follow in registry order; no keyword-matched
\* server precedes an addressed one.
C20_Ordered ==
    Answered =>
        \A i, j \in 1..Len(last.detected) :
            i < j =>
                /\ Addresses(last.message, last.detected[j]) =>
                       /\ Addresses(last.message, last.detected[i])
                       /\ FirstToken(last.message, last.detected[i])
                              < FirstToken(last.message, last.detected[j])
                /\ ~Addresses(last.message, last.detected[i]) =>
                       RegIndex(last.detected[i]) < RegIndex(last.detected[j])

\* an addressed server was answered before a keyword-matched server that the
\* registry lists earlier
C20_Witness ==
    /\ Answered
    /\ \E i, j \in 1..Len(last.detected) :
           /\ i < j
           /\ Addresses(last.message, last.detected[i])
           /\ ~Addresses(last.message, last.detected[j])
           /\ RegIndex(last.detected[j]) < RegIndex(last.detected[i])

----------------------------------------------------------------------------
(* Properties of the gateway's forwarding of the messages it does not      *)
(* answer itself, checked under GatewaySpec.  A step that handles a line   *)
(* is recognised by last'.op; the unprimed variables are the state the     *)
(* line was read in.                                                       *)

\* line is a message that process_request neither answers itself nor takes
\* for a tools/call
Forwarded(line) ==
    /\ line.kind = "object"
    /\ line.method \notin {"initialize", "tools/list", "tools/call"}

\* the engine lists a container under the container name of s
ListedByEngine(s) == \E n \in engine : Contains(n, Registry[s].container_name)

\* the call that ran cmds ran the engine start command of s
StartIssued(cmds, s) == Issued(cmds, StartCmd(s, TRUE)) \/ Issued(cmds, StartCmd(s, FALSE))

\* C21: a server the engine reports running is chosen by trigger detection
\* exactly when the text addresses it explicitly, never by a keyword; when
\* the gateway then starts the chosen servers, that server's activity is set
\* to now, no engine start command is run for it, every change notification
\* follows the start command of another server, and it keeps running.
C21_RunningServerReaddressed ==
    [][(last'.op = "line" /\ Forwarded(last'.line)) =>
          \A s \in Servers :
              ListedByEngine(s) =>
                  /\ InSeq(s, last'.detected) <=> Addresses(last'.line.text, s)
                  /\ InSeq(s, last'.detected) =>
                        /\ ~StartIssued(last'.cmds, s)
                        /\ \A k \in 1..Len(last'.noted_at) :
                               last'.noted_at[k] \in StartsIssued(last'.cmds)
                        /\ s \in DOMAIN activity_tracker'
                        /\ activity_tracker'[s] = now
                        /\ (s \in DOMAIN running_containers') = (s \in DOMAIN running_containers)
                        /\ Registry[s].container_name \in engine']_vars

\* deeplake-rag, which the engine reports running, was addressed explicitly:
\* it was chosen, asked about and not started, no notification was written
\* and its activity is now
C21_Witness ==
    /\ last.op = "line"
    /\ Forwarded(last.line)
    /\ Addresses(last.line.text, DeeplakeRag)
    /\ InSeq(DeeplakeRag, last.detected)
    /\ Issued(last.cmds, Cmd("ps", Registry[DeeplakeRag].container_name, TRUE))
    /\ ~StartIssued(last.cmds, DeeplakeRag)
    /\ last.notes = 0
    /\ now > 0
    /\ activity_tracker[DeeplakeRag] = now

\* how many engine start commands of s are among cmds
StartCount(cmds, s) ==
    Cardinality({i \in StartsIssued(cmds) : cmds[i] \in {StartCmd(s, TRUE), StartCmd(s, FALSE)}})

\* the servers the engine lists once the line is handled
RunningAfter == {s \in Servers : \E n \in engine' : Contains(n, Registry[s].container_name)}

\* the first of RunningAfter in registry order
FirstRunningAfter == RegistryKeys[CHOOSE i \in 1..Len(RegistryKeys) :
                         /\ RegistryKeys[i] \in RunningAfter
                         /\ \A j \in 1..(i - 1) : RegistryKeys[j] \notin RunningAfter]

\* the line was written to the output as it was read, and nothing else but
\* change notifications
PassedThrough ==
    /\ last'.reply.kind = "none"
    /\ \E i \in 1..Len(stdout') :
           /\ stdout'[i] = [NoReply EXCEPT !.kind = "passthrough", !.id = last'.line.id]
           /\ \A j \in 1..Len(stdout') : j # i => stdout'[j].kind = "notification"

\* C22: for a message the gateway does not answer itself, every server of
\* the detection result gets one start attempt (one engine start command
\* unless the engine lists it already); then, if a server runs, the message
\* is relayed to the first running server in registry order and the answer
\* that server gave to the message is returned, or the relay fails and the
\* message is passed through; if no server runs it is passed through.
C22_ForwardOrPassThrough ==
    [][(last'.op = "line" /\ Forwarded(last'.line)) =>
          /\ \A s \in Servers :
                 StartCount(last'.cmds, s) =
                     IF InSeq(s, last'.detected) /\ ~ListedByEngine(s) THEN 1 ELSE 0
          /\ IF RunningAfter # {}
             THEN \/ /\ Ran(last'.cmds)
                     /\ Registry[FirstRunningAfter].image = last'.cmds[Len(last'.cmds)].name
                     /\ last'.reply.from \in {"result", "error"}
                     /\ last'.reply.id = last'.line.id
                     /\ stdout'[Len(stdout')] = last'.reply
                  \/ PassedThrough
             ELSE ~Ran(last'.cmds) /\ PassedThrough]_vars

\* how often tool_name is among tools
Listings(tools, tool_name) == Cardinality({i \in 1..Len(tools) : tools[i] = tool_name})

----------------------------------------------------------------------------
(* Properties of the health checker, checked under HealthSpec *)

\* the entry's source directory is recorded and is not on disk
SourceMissing(entry) == entry.source_path # "" /\ ~Exists(entry.source_path)

\* the commands of the levels of a check, in their order, each with how it ended
LevelCmds(env, entry) ==
    << Cmd("compose ps", <<entry.container_config>>, env.l1 = "running"),
       Cmd("compose run initialize", <<entry.container_config>>, env.l2 = "ok"),
       Cmd("compose run tools/list", <<entry.container_config>>, env.l3 = "ok") >>

\* how many levels a check runs: up to the first one that fails
LevelsRun(env, entry) ==
    CASE SourceMissing(entry) -> 0
      [] ~SourceMissing(entry) /\ env.l1 # "running" -> 1
      [] ~SourceMissing(entry) /\ env.l1 = "running" /\ env.l2 # "ok" -> 2
      [] OTHER -> 3

\* the status the first failing step gives
StatusByOrder(env, entry) ==
    IF SourceMissing(entry) THEN "source_missing"
    ELSE IF env.l1 # "running" THEN "stopped"
    ELSE IF env.l2 # "ok" THEN "unhealthy"
    ELSE IF env.l3 # "ok" THEN "unhealthy"
    ELSE IF env.ms >= _MAX_HEALTHY_RESPONSE_MS THEN "unhealthy"
    ELSE "healthy"

C25_StoppedAtL1 ==
    last.op = "check" /\ last.raised = "" /\ ~SourceMissing(last.entry)
        /\ last.env.l1 # "running" =>
        /\ ~last.result.container_running
        /\ ~last.result.protocol_responds
        /\ ~last.result.tools_available
        /\ last.result.response_time_ms = 0
        /\ last.result.status = "stopped"
        /\ \A i \in 1..Len(last.cmds) :
               last.cmds[i].cmd \notin {"compose run initialize", "compose run tools/list"}

\* a check that found docker compose ps timing out
C25_Witness ==
    /\ last.op = "check"
    /\ last.raised = ""
    /\ ~SourceMissing(last.entry)
    /\ last.env.l1 = "timeout"
    /\ last.result.status = "stopped"
    /\ Len(last.cmds) = 1
    /\ last.cmds[1].cmd = "compose ps"

\* the commands of a recovery, in their order
RecoveryCmds(env, entry) ==
    << Cmd("compose restart", <<entry.container_config>>, env.restart = "ok"),
       Cmd("sleep", <<>>, TRUE),
       Cmd("compose ps", <<entry.container_config>>, env.l1 = "running"),
       Cmd("compose run initialize", <<entry.container_config>>, env.l2 = "ok") >>

\* how many of them a recovery runs
RecoverySteps(env) ==
    IF env.restart # "ok" THEN 1 ELSE IF env.l1 # "running" THEN 3 ELSE 4

\* attempt_recovery has just been called, by itself or by the health command
Recovering(call) ==
    \/ call.op = "attempt_recovery" /\ call.raised = ""
    \/ call.op = "health" /\ call.recover /\ call.result.status = "unhealthy"

\* the commands the health command ran before the recovery
CheckCmds(call) ==
    IF call.op = "health"
    THEN SubSeq(LevelCmds(call.env, call.entry), 1, LevelsRun(call.env, call.entry))
    ELSE <<>>

\* the engine's answers to the recovery
RecoveryEnv(call) == IF call.op = "health" THEN call.recovery ELSE call.env

\* C26: attempt_recovery issues one restart, waits the settle period and
\* then runs L1 and L2 only; it returns true exactly when the restart
\* succeeded and L1 and L2 passed; it never runs L3, and it writes nothing
\* to the registry: called by itself it leaves the registry as it was, and
\* the health command records the result of its check only.
C26_RecoveryRestartsAndRechecks ==
    [][Recovering(last') =>
          /\ last'.ret = (/\ RecoveryEnv(last').restart = "ok"
                          /\ RecoveryEnv(last').l1 = "running"
                          /\ RecoveryEnv(last').l2 = "ok")
          /\ last'.cmds = CheckCmds(last')
                          \o SubSeq(RecoveryCmds(RecoveryEnv(last'), last'.entry), 1,
                                    RecoverySteps(RecoveryEnv(last')))
          /\ RecoveryEnv(last').restart = "ok" => now' = now + _RECOVERY_WAIT_SECS
          /\ entries' = IF last'.op = "health"
                        THEN update_health(entries, last'.entry.name, last'.result)
                        ELSE entries]_vars

\* the health command with --recover has found a server unhealthy and has
\* recovered it: the registry holds the check's result as the only record
C26_Witness ==
    /\ last.op = "health"
    /\ last.recover
    /\ last.ret
    /\ Len(last.cmds) = 6
    /\ last.entry.name \in DOMAIN entries
    /\ Len(entries[last.entry.name].health_history) = 1
    /\ entries[last.entry.name].health.last_status = "unhealthy"
    /\ entries[last.entry.name].health.consecutive_failures = 1

----------------------------------------------------------------------------
(* Properties of the boundary of checker and manager, checked under        *)
(* BoundarySpec                                                            *)

\* C27: no call of check, attempt_recovery, start, stop or is_running ends
\* in an exception: each returns its value for every entry, one without
\* container_config included, and however the engine answers.
C27_NeverRaises ==
    last.op \in {"check", "attempt_recovery", "start", "stop", "is_running"} =>
        last.raised = ""

----------------------------------------------------------------------------
(* Properties of the recorded health, checked under HistorySpec *)

\* update_health has just recorded a result for a server that is registered
Recording(name) ==
    /\ last'.op = "update_health"
    /\ last'.entry.name = name
    /\ name \in DOMAIN entries

\* C28: whatever operations the store has made, no server's health_history
\* holds more than 168 results; update_health on a history of 168 results
\* removes the oldest one and appends the new result at the end, the others
\* keeping their order.
C28_HistoryCapped ==
    [][/\ \A name \in DOMAIN entries' :
              Len(entries'[name].health_history) <= _MAX_HEALTH_HISTORY
       /\ \A name \in StoreNames :
              Recording(name) /\ Len(entries[name].health_history) = _MAX_HEALTH_HISTORY =>
                  entries'[name].health_history
                      = Append(Tail(entries[name].health_history), last'.result)]_vars

\* the 169th result of a server has been recorded: the first one is gone
C28_Witness ==
    /\ last.op = "update_health"
    /\ "a" \in DOMAIN entries
    /\ entries["a"].health.total_checks = _MAX_HEALTH_HISTORY + 1
    /\ Len(entries["a"].health_history) = _MAX_HEALTH_HISTORY
    /\ entries["a"].health_history[1] = LongEntry("a").health_history[2]
    /\ entries["a"].health_history[_MAX_HEALTH_HISTORY] = last.result

\* a result of this status counts as a failure
Failing(status) == status \in {"unhealthy", "unknown"}

\* the length of the longest suffix of history whose results all failed
FailingSuffix(history) ==
    Cardinality({k \in 1..Len(history) :
                    \A j \in (Len(history) - k + 1)..Len(history) : Failing(history[j].status)})

\* C29: update_health sets consecutive_failures to 0 for a result that is
\* healthy, stopped or source_missing and to one more than it was for a
\* result that is unhealthy or unknown; so the count of a server is always
\* the length of the longest suffix of its recorded results that are
\* unhealthy or unknown.
C29_ConsecutiveFailures ==
    [][/\ \A name \in StoreNames :
              Recording(name) =>
                  entries'[name].health.consecutive_failures
                      = IF last'.result.status \in {"healthy", "stopped", "source_missing"}
                        THEN 0
                        ELSE entries[name].health.consecutive_failures + 1
       /\ \A name \in DOMAIN entries' :
              entries'[name].health.consecutive_failures
                  = FailingSuffix(entries'[name].health_history)]_vars

\* a server found stopped, then unhealthy, then of unknown health
C29_Witness ==
    /\ last.op = "update_health"
    /\ "b" \in DOMAIN entries
    /\ Len(entries["b"].health_history) = 3
    /\ entries["b"].health_history[1].status = "stopped"
    /\ entries["b"].health_history[2].status = "unhealthy"
    /\ entries["b"].health_history[3].status = "unknown"
    /\ entries["b"].health.consecutive_failures = 2

\* C30: total_checks of a server never decreases while the store adds the
\* server and records results for it, and every update_health on a
\* registered name increases it by exactly 1.
C30_TotalChecksMonotonic ==
    [][\A name \in DOMAIN entries \cap DOMAIN entries' :
           /\ last'.op \in {"add", "update_health"} =>
                  entries'[name].health.total_checks >= entries[name].health.total_checks
           /\ Recording(name) =>
                  entries'[name].health.total_checks = entries[name].health.total_checks + 1]_vars

----------------------------------------------------------------------------
(* Properties of the friendly names, checked under DetectSpec *)

\* the entries of the registry that declare the friendly name x
Declaring(x) ==
    {i \in 1..Len(RegistryKeys) : Get(Registry[RegistryKeys[i]], "friendly_name", <<>>) = x}

\* C31: when two entries of the registry declare one friendly name, the
\* later one is ignored: the table of friendly names maps the name to the
\* first entry that declares it, and a text that addresses .x is answered
\* with that entry and never, for its friendly name, with the later one.
C31_FirstFriendlyNameWins ==
    /\ \A x \in DOMAIN friendly_name_map :
           /\ Declaring(x) # {}
           /\ \A i \in Declaring(x) : RegIndex(friendly_name_map[x]) <= i
    /\ Answered =>
           \A s \in Servers :
               (\E i \in 1..Len(last.message) :
                    /\ "friendly_name" \in DOMAIN Registry[s]
                    /\ TokenAt(last.message, Registry[s].friendly_name, i)) =>
                   /\ InSeq(friendly_name_map[Registry[s].friendly_name], last.detected)
                   /\ ~Named(s) /\ ~KeywordHit(last.message, s) => ~InSeq(s, last.detected)

\* deeplake-rag and notes both declare the friendly name deeplake: a text
\* with .deeplake and no trigger of notes was answered with deeplake-rag alone
C31_Witness ==
    /\ Answered
    /\ Cardinality(Declaring(<<"deeplake">>)) = 2
    /\ \E i \in 1..Len(last.message) : TokenAt(last.message, <<"deeplake">>, i)
    /\ ~KeywordHit(last.message, Notes)
    /\ last.detected = <<DeeplakeRag>>

----------------------------------------------------------------------------
(* Properties of the relay, checked under GatewaySpec *)

\* the lines of a container's output that are JSON-RPC messages
JsonRpcLines == {"init", "result", "error", "note"}

\* a docker run that yields no response: a timeout, a non-zero exit, no
\* output, or output that holds no JSON-RPC message
RelayFailed(relay) ==
    \/ relay.timeout
    \/ relay.rc # 0
    \/ \A i \in 1..Len(relay.out) : relay.out[i] \notin JsonRpcLines

\* C32: when the container run of a relay times out, exits with a non-zero
\* status, writes nothing or writes nothing that parses as JSON-RPC, the
\* relay returns no response: the gateway passes the message through on the
\* generic path and answers with a JSON-RPC error on the tool-call paths,
\* and never writes a result for it.
C32_FailedRelayIsNoResponse ==
    last.op = "line" /\ Ran(last.cmds) /\ RelayFailed(last.relay) =>
        /\ last.reply.kind \in {"none", "error", "raise"}
        /\ last.reply.kind = "raise" => last.reply.what # "AttributeError"
        /\ last.line.method = "tools/call" =>
               /\ Len(stdout) >= 1
               /\ stdout[Len(stdout)].kind = "error"
        /\ last.line.method # "tools/call" =>
               /\ Len(stdout) >= 1
               /\ stdout[Len(stdout)].kind = "passthrough"

----------------------------------------------------------------------------
(* Properties of the measured response time, checked under HealthSpec *)

\* C33: whenever L1 passes, the response_time_ms of the result is the time
\* the initialize call of L2 took, whether the check ends with a failed L2
\* (a timeout included), a failed L3, a response time over the threshold,
\* or healthy.
C33_ResponseTimeFromL2 ==
    last.op = "check" /\ last.raised = "" /\ ~SourceMissing(last.entry)
        /\ last.env.l1 = "running" =>
        last.result.response_time_ms = last.env.ms

\* a check whose initialize call timed out after 9000 ms
C33_Witness ==
    /\ last.op = "check"
    /\ last.raised = ""
    /\ ~SourceMissing(last.entry)
    /\ last.env.l1 = "running"
    /\ last.env.l2 = "timeout"
    /\ last.env.ms = 9000
    /\ last.result.status = "unhealthy"
    /\ last.result.response_time_ms = 9000

----------------------------------------------------------------------------
(* Properties of the keyword router, checked under GatewaySpec *)

\* the intents in their order: the tool of each, and the keywords of which
\* one (any) or every one (all) is to be a part of the query
Intents ==
    << [tool |-> "retrieve_context", any |-> {"search", "find", "retrieve"}, all |-> {}],
       [tool |-> "search_recent", any |-> {"recent"}, all |-> {}],
       [tool |-> "get_summary", any |-> {"summary"}, all |-> {}],
       [tool |-> "get_document", any |-> {}, all |-> {"document", "get"}],
       [tool |-> "get_fuzzy_matching_titles", any |-> {"fuzzy", "title"}, all |-> {}] >>

\* the intents whose keywords the query holds
Matching(query) ==
    {i \in 1..Len(Intents) :
        \/ \E w \in Intents[i].any : Contains(Lower(query), <<w>>)
        \/ Intents[i].all # {} /\ \A w \in Intents[i].all : Contains(Lower(query), <<w>>)}

\* the tool of the first intent that matches, or of the default intent
FirstIntent(query) ==
    IF Matching(query) = {} THEN "retrieve_context"
    ELSE Intents[CHOOSE i \in Matching(query) : \A j \in Matching(query) : i <= j].tool

\* C34: for every registered server a polymorphic call names and every
\* query, the router chooses the tool of the first intent in the fixed order
\* whose keyword is a part of the lower-cased query, or of the default
\* intent when none is, so that the tool name it hands to the relay is never
\* null.
C34_RouterChoosesOneIntent ==
    last.op = "line" /\ last.line.method = "tools/call" /\ last.line.params_ok
        /\ EndsWith(last.line.name, <<"_", "query">>)
        /\ QueryServer(last.line.name) \in Servers =>
        /\ RoutedTool(QueryServer(last.line.name), last.line.query) # "None"
        /\ RoutedTool(QueryServer(last.line.name), last.line.query)
               = FirstIntent(last.line.query)
        /\ last.reply.kind = "result" => last.reply.tool = FirstIntent(last.line.query)

----------------------------------------------------------------------------
(* Properties of the tool names, checked under NamingSpec *)

\* C35: a polymorphic tool name that tools/list advertises for a registry
\* key is resolved by tools/call to exactly that key, whatever the key is
\* (keys with '_' or with the text "_query" included), and two keys of a
\* registry are never advertised under one tool name.
C35_ToolNameRoundTrip ==
    last.op = "resolve" =>
        /\ last.server = last.detected[last.notes]
        /\ last.reply.tools[1] # last.reply.tools[2]

----------------------------------------------------------------------------
(* Properties of the activity records, checked under GatewaySpec *)

\* the names whose activity record the step has created or moved
Stamped ==
    {k \in DOMAIN activity_tracker' :
        k \notin DOMAIN activity_tracker \/ activity_tracker'[k] # activity_tracker[k]}

\* C36: every activity record the gateway writes while it handles a request
\* is that of a server of the registry that the engine listed as running or
\* that the request has just started; a request that names an unknown server
\* or whose start fails writes no record.
C36_ActivityOnlyForRunning ==
    [][last'.op = "line" =>
          /\ DOMAIN activity_tracker' \subseteq DOMAIN activity_tracker \cup Servers
          /\ \A k \in Stamped \cap Servers :
                 ListedByEngine(k) \/ Issued(last'.cmds, StartCmd(k, TRUE))]_vars

\* C37: a relay that returns no response leaves the activity record of the
\* server it was made to as it was: for a message that starts no server and
\* is relayed to the first running server, a relay without a response
\* changes no activity record.
C37_FailedRelayKeepsActivity ==
    [][last'.op = "line" /\ Forwarded(last'.line) /\ last'.detected = <<>>
           /\ Ran(last'.cmds) /\ last'.reply.kind = "none" =>
          UNCHANGED activity_tracker]_vars

----------------------------------------------------------------------------
(* Further properties of the lifecycle manager, checked under Spec *)

\* C38: a sweep that leaves the set of running servers as it was, because no
\* server qualified for eviction or because every engine stop command it ran
\* failed, fires no change notification.
C38_UnchangedSweepIsSilent ==
    [][last'.op = "sweep" /\ StopsDone(last'.cmds) = {} /\ engine' = engine =>
          last'.notes = 0]_vars

----------------------------------------------------------------------------
(* Properties of the running test, checked under NeighbourSpec *)

\* C39: is_running(s) is true only when the engine lists a container whose
\* name is exactly the container name of s; a container whose name merely
\* contains that name does not make s count as running, and so does not
\* keep start from running the start command of s.
C39_RunningByExactName ==
    [][/\ last'.op = "is_running" /\ last'.ret =>
              Registry[last'.server].container_name \in engine
       /\ last'.op = "start" /\ Registry[last'.server].container_name \notin engine =>
              StartIssued(last'.cmds, last'.server)]_vars

=============================================================================
